---- MODULE Spec2Model ----
(***************************************************************************)
(* The fusion stage of the skin-analysis backend: the helpers of           *)
(* Backend/AI_Comb_Models_Logicals.py (skin-type selection, lesion         *)
(* aggregation, tiering, section merge) and the combination helpers of     *)
(* Backend/Test_Scripts.                                                   *)
(*                                                                         *)
(* The functions are pure, so the state is the call in progress: the name  *)
(* of the function called, its arguments, whether it has returned, and     *)
(* what it returned or raised.                                             *)
(*                                                                         *)
(* Spec is that machine.  SpecRequests is the machine of the analysis       *)
(* requests one process serves at the same time: the globals of app.py,    *)
(* the ModelRunner objects and the position of each request.               *)
(*                                                                         *)
(* A probability is counted in twentieths: the integer n stands for the    *)
(* float n/20 (0.15 is 3, 0.30 is 6, 1.0 is 20).  Comparisons and max are  *)
(* exact on these; the products of combine_probs are kept as exact         *)
(* fractions, and where rounding matters (combine_probs in binary64,       *)
(* analyze_face_skin) as IEEE 754 binary64 values.                         *)
(***************************************************************************)
EXTENDS Integers, Sequences, FiniteSets, TLC

VARIABLES call, arg, ret, pc,
          _lesions_runner, _conditions_runner, _model_lock, runners, loads, threads

\* the globals of app.py, the ModelRunner objects, the loads of weights made
\* so far, and the requests being served
requestVars == <<_lesions_runner, _conditions_runner, _model_lock, runners, loads, threads>>

vars == <<call, arg, ret, pc, requestVars>>

(***************************************************************************)
(* Bounds of the model.                                                    *)
(***************************************************************************)
\* items in the three sections handed to merge_concerns_sections, together
MaxItems == 3
\* entries of the aggregated map handed to _split_other_concerns
MaxConcerns == 2
\* candidates handed to _pick_skin_type
MaxCands == 3
\* predictions handed to _agg_lesions_to_concerns_by_max
MaxPreds == 3
\* contributors handed to combine_probs
MaxContrib == 3
\* classes handed to the script variant of _pick_skin_type
MaxClasses == 3
\* analysis requests served at the same time
MaxRequests == 2

(***************************************************************************)
(* Python values.                                                          *)
(***************************************************************************)
None == "<None>"

\* v is None, for a v that is None or a value of another shape
IsNone(v) == ToString(v) = ToString(None)

Range(s) == {s[i] : i \in 1..Len(s)}

SeqsUpTo(S, n) == UNION {[1..k -> S] : k \in 0..n}

\* the outcome of a call: a returned value, or the exception it raised
Return(v) == [raised |-> "", val |-> v]

Raise(e) == [raised |-> e, val |-> None]

\* A dict is the sequence of its (key, value) entries in insertion order.
DictHas(d, k) == \E i \in 1..Len(d) : d[i].k = k

DictGet(d, k, default) ==
    IF DictHas(d, k) THEN d[CHOOSE i \in 1..Len(d) : d[i].k = k].v ELSE default

\* d[k] = v: an existing key keeps its place
DictSet(d, k, v) ==
    IF DictHas(d, k)
    THEN [i \in 1..Len(d) |-> IF d[i].k = k THEN [k |-> k, v |-> v] ELSE d[i]]
    ELSE Append(d, [k |-> k, v |-> v])

DictKeys(d) == {d[i].k : i \in 1..Len(d)}

\* a dict as a mapping: what == compares in Python
AsMap(d) == [k \in DictKeys(d) |-> DictGet(d, k, None)]

PyMax(a, b) == IF b > a THEN b ELSE a

\* list.sort(key=lambda x: x["prob"], reverse=True): stable, descending
RECURSIVE InsertByProbDesc(_, _)
InsertByProbDesc(sorted, x) ==
    IF sorted = <<>> THEN <<x>>
    ELSE IF Head(sorted).prob >= x.prob
         THEN <<Head(sorted)>> \o InsertByProbDesc(Tail(sorted), x)
         ELSE <<x>> \o sorted

\* a mutant of SortByProbDesc: the list is left in the order it has
SortByProbDescNoSort(s) == s

RECURSIVE SortByProbDesc(_)
SortByProbDesc(s) ==
    IF s = <<>> THEN <<>>
    ELSE InsertByProbDesc(SortByProbDesc(SubSeq(s, 1, Len(s) - 1)), s[Len(s)])

(***************************************************************************)
(* merge_concerns_sections (AI_Comb_Models_Logicals.py 297-332).           *)
(***************************************************************************)
SectionKeys == {"skin_concerns", "other_concerns", "low_concerns"}

\* combined.get(key, [])
SectionOf(combined, key) ==
    IF key \in DOMAIN combined THEN combined[key] ELSE <<>>

\* the body of the first loop: merged[lbl] = {"prob": p, "source": ["conditions"]}
MergeConditionsItem(merged, d) ==
    DictSet(merged, d.label, [prob |-> d.prob, source |-> <<"conditions">>])

\* a mutant of MergeLesionsItem: the tag is recorded only when the item
\* raises the stored probability
MergeLesionsItemTagOnRaise(merged, d, tag) ==
    IF DictHas(merged, d.label)
    THEN LET e == DictGet(merged, d.label, None)
         IN  DictSet(merged, d.label,
                     [prob   |-> PyMax(e.prob, d.prob),
                      source |-> IF d.prob > e.prob /\ tag \notin Range(e.source)
                                 THEN Append(e.source, tag)
                                 ELSE e.source])
    ELSE DictSet(merged, d.label, [prob |-> d.prob, source |-> <<tag>>])

\* a mutant of MergeLesionsItem: the tag is put in front of the source list
MergeLesionsItemTagInFront(merged, d, tag) ==
    IF DictHas(merged, d.label)
    THEN LET e == DictGet(merged, d.label, None)
         IN  DictSet(merged, d.label,
                     [prob   |-> PyMax(e.prob, d.prob),
                      source |-> IF tag \notin Range(e.source)
                                 THEN <<tag>> \o e.source
                                 ELSE e.source])
    ELSE DictSet(merged, d.label, [prob |-> d.prob, source |-> <<tag>>])

\* a mutant of MergeLesionsItem: the tag is appended without looking for it
MergeLesionsItemAlwaysTag(merged, d, tag) ==
    IF DictHas(merged, d.label)
    THEN LET e == DictGet(merged, d.label, None)
         IN  DictSet(merged, d.label,
                     [prob   |-> PyMax(e.prob, d.prob),
                      source |-> Append(e.source, tag)])
    ELSE DictSet(merged, d.label, [prob |-> d.prob, source |-> <<tag>>])

\* the body of the second and third loops, which differ in the tag only
MergeLesionsItem(merged, d, tag) ==
    IF DictHas(merged, d.label)
    THEN LET e == DictGet(merged, d.label, None)
         IN  DictSet(merged, d.label,
                     [prob   |-> PyMax(e.prob, d.prob),
                      source |-> IF tag \notin Range(e.source)
                                 THEN Append(e.source, tag)
                                 ELSE e.source])
    ELSE DictSet(merged, d.label, [prob |-> d.prob, source |-> <<tag>>])

RECURSIVE MergeConditionsLoop(_, _)
MergeConditionsLoop(merged, items) ==
    IF items = <<>> THEN merged
    ELSE MergeConditionsLoop(MergeConditionsItem(merged, Head(items)), Tail(items))

RECURSIVE MergeLesionsLoop(_, _, _)
MergeLesionsLoop(merged, items, tag) ==
    IF items = <<>> THEN merged
    ELSE MergeLesionsLoop(MergeLesionsItem(merged, Head(items), tag), Tail(items), tag)

merge_concerns_sections(combined) ==
    LET m1 == MergeConditionsLoop(<<>>, SectionOf(combined, "skin_concerns"))
        m2 == MergeLesionsLoop(m1, SectionOf(combined, "other_concerns"), "lesions")
        m3 == MergeLesionsLoop(m2, SectionOf(combined, "low_concerns"), "lesions-low")
    IN  m3

(***************************************************************************)
(* merge_concerns_sections on objects.  Python dicts and lists are objects *)
(* that names and containers refer to; the heap is the sequence of the     *)
(* objects allocated so far and an address is an index of it.  An object   *)
(* is a record [kind, label, prob, elems]:                                 *)
(*   "dict"    a dict, elems its entries [k |-> key, v |-> address];       *)
(*   "reflist" a list of objects, elems their addresses;                   *)
(*   "item"    {"label": label, "prob": prob} of a section;                *)
(*   "entry"   {"prob": prob, "source": elems[1]} of the merged map;       *)
(*   "strlist" a list of strings, elems the strings.                       *)
(* Strings and floats are immutable and are kept by value.  The function   *)
(* reads the items, allocates the merged dict, and for each new label a    *)
(* source list and an entry; it assigns to entries and appends to source   *)
(* lists it allocated.                                                     *)
(***************************************************************************)
Object(kind, label, prob, elems) ==
    [kind |-> kind, label |-> label, prob |-> prob, elems |-> elems]

\* combined.get(key, []): the items of the section, or none
HeapSectionOf(heap, combined, key) ==
    IF DictHas(heap[combined].elems, key)
    THEN heap[DictGet(heap[combined].elems, key, 0)].elems
    ELSE <<>>

\* merged[lbl] = {"prob": p, "source": [tag]}: a new list and a new dict
HeapNewEntry(heap, merged, lbl, p, tag) ==
    LET source == Len(heap) + 1
        entry == Len(heap) + 2
        heap1 == heap \o <<Object("strlist", "", 0, <<tag>>),
                           Object("entry", "", p, <<source>>)>>
    IN  [heap1 EXCEPT ![merged].elems = DictSet(heap[merged].elems, lbl, entry)]

\* a mutant of HeapMergeConditionsItem: the item itself is given the source
\* list and is stored in the merged map
HeapMergeConditionsItemReusesItem(heap, merged, d) ==
    LET source == Len(heap) + 1
        heap1 == Append(heap, Object("strlist", "", 0, <<"conditions">>))
    IN  [heap1 EXCEPT ![d].elems = <<source>>,
                      ![merged].elems = DictSet(heap[merged].elems, heap[d].label, d)]

\* the body of the first loop
HeapMergeConditionsItem(heap, merged, d) ==
    HeapNewEntry(heap, merged, heap[d].label, heap[d].prob, "conditions")

\* the body of the second and third loops
HeapMergeLesionsItem(heap, merged, d, tag) ==
    LET lbl == heap[d].label
        p == heap[d].prob
        entry == DictGet(heap[merged].elems, lbl, 0)
        source == heap[entry].elems[1]
    IN  IF DictHas(heap[merged].elems, lbl)
        THEN [heap EXCEPT ![entry].prob = PyMax(heap[entry].prob, p),
                          ![source].elems = IF tag \notin Range(heap[source].elems)
                                            THEN Append(heap[source].elems, tag)
                                            ELSE heap[source].elems]
        ELSE HeapNewEntry(heap, merged, lbl, p, tag)

RECURSIVE HeapMergeConditionsLoop(_, _, _)
HeapMergeConditionsLoop(heap, merged, items) ==
    IF items = <<>> THEN heap
    ELSE HeapMergeConditionsLoop(HeapMergeConditionsItem(heap, merged, Head(items)),
                                 merged, Tail(items))

RECURSIVE HeapMergeLesionsLoop(_, _, _, _)
HeapMergeLesionsLoop(heap, merged, items, tag) ==
    IF items = <<>> THEN heap
    ELSE HeapMergeLesionsLoop(HeapMergeLesionsItem(heap, merged, Head(items), tag),
                              merged, Tail(items), tag)

\* the heap after the call and the address of the dict it returns
merge_concerns_sections_on_heap(heap, combined) ==
    LET merged == Len(heap) + 1
        h0 == Append(heap, Object("dict", "", 0, <<>>))
        h1 == HeapMergeConditionsLoop(h0, merged, HeapSectionOf(h0, combined, "skin_concerns"))
        h2 == HeapMergeLesionsLoop(h1, merged, HeapSectionOf(h1, combined, "other_concerns"),
                                   "lesions")
        h3 == HeapMergeLesionsLoop(h2, merged, HeapSectionOf(h2, combined, "low_concerns"),
                                   "lesions-low")
    IN  [heap |-> h3, merged |-> merged]

\* the objects a holder of the address a can get at
ObjectsOf(heap, a) ==
    LET refs(b) == IF heap[b].kind = "dict"
                   THEN {heap[b].elems[i].v : i \in 1..Len(heap[b].elems)}
                   ELSE IF heap[b].kind \in {"reflist", "entry", "item"}
                   THEN Range(heap[b].elems)
                   ELSE {}
        one == {a} \cup refs(a)
        two == one \cup UNION {refs(b) : b \in one}
    IN  two \cup UNION {refs(b) : b \in two}

(***************************************************************************)
(* _pick_skin_type (AI_Comb_Models_Logicals.py 212-214).                   *)
(***************************************************************************)
\* max(seq, key=...): the first element whose key no later element exceeds;
\* ValueError on an empty sequence
RECURSIVE PyMaxByProbLoop(_, _, _)
PyMaxByProbLoop(prob_map, best, rest) ==
    IF rest = <<>> THEN best
    ELSE PyMaxByProbLoop(prob_map,
                         IF DictGet(prob_map, Head(rest), 0) > DictGet(prob_map, best, 0)
                         THEN Head(rest) ELSE best,
                         Tail(rest))

\* a mutant of PyMaxByProb: a label missing from the map counts as certain
PyMaxByProbMissingWins(prob_map, seq) ==
    IF \E i \in 1..Len(seq) : ~DictHas(prob_map, seq[i])
    THEN seq[CHOOSE i \in 1..Len(seq) : ~DictHas(prob_map, seq[i])]
    ELSE PyMaxByProbLoop(prob_map, Head(seq), Tail(seq))

\* max(skin_type_labels, key=lambda k: prob_map.get(k, 0.0)) on a non-empty sequence
PyMaxByProb(prob_map, seq) ==
    PyMaxByProbLoop(prob_map, Head(seq), Tail(seq))

_pick_skin_type(prob_map, skin_type_labels) ==
    IF skin_type_labels = <<>>
    THEN Raise("ValueError")
    ELSE LET best_label == PyMaxByProb(prob_map, skin_type_labels)
         IN  Return([label |-> best_label, prob |-> DictGet(prob_map, best_label, 0)])

(***************************************************************************)
(* _skin_concerns_from_conditions (AI_Comb_Models_Logicals.py 217-228).    *)
(***************************************************************************)
RECURSIVE SkinConcernsLoop(_, _, _, _)
SkinConcernsLoop(out, all_results, skin_type_labels, threshold) ==
    IF all_results = <<>> THEN out
    ELSE LET d == Head(all_results)
         IN  SkinConcernsLoop(
                 IF d.label \in Range(skin_type_labels) THEN out
                 ELSE IF d.prob >= threshold
                      THEN Append(out, [label |-> d.label, prob |-> d.prob])
                      ELSE out,
                 Tail(all_results), skin_type_labels, threshold)

_skin_concerns_from_conditions(all_results, skin_type_labels, threshold) ==
    SortByProbDesc(SkinConcernsLoop(<<>>, all_results, skin_type_labels, threshold))

(***************************************************************************)
(* _agg_lesions_to_concerns_by_max (AI_Comb_Models_Logicals.py 231-245).   *)
(* A mapping is a function from the lesion labels it lists to a concern    *)
(* name or None.                                                           *)
(***************************************************************************)
\* mapping.get(lesion_label)
MappingGet(mapping, lesion_label) ==
    IF lesion_label \in DOMAIN mapping THEN mapping[lesion_label] ELSE None

\* a mutant of AggLesionsItem: the last prediction of a concern wins
AggLesionsItemLastWins(agg, d, mapping) ==
    LET concern == MappingGet(mapping, d.label)
    IN  IF concern = None THEN agg ELSE DictSet(agg, concern, d.prob)

\* a mutant of AggLesionsItem: a prediction without a concern is not skipped
AggLesionsItemNoSkip(agg, d, mapping) ==
    LET concern == MappingGet(mapping, d.label)
    IN  IF ~DictHas(agg, concern) \/ d.prob > DictGet(agg, concern, 0)
        THEN DictSet(agg, concern, d.prob)
        ELSE agg

\* the body of the loop; "not concern" holds of None (no concern name is empty)
AggLesionsItem(agg, d, mapping) ==
    LET concern == MappingGet(mapping, d.label)
    IN  IF concern = None THEN agg
        ELSE IF ~DictHas(agg, concern) \/ d.prob > DictGet(agg, concern, 0)
             THEN DictSet(agg, concern, d.prob)
             ELSE agg

RECURSIVE AggLesionsLoop(_, _, _)
AggLesionsLoop(agg, lesion_results, mapping) ==
    IF lesion_results = <<>> THEN agg
    ELSE AggLesionsLoop(AggLesionsItem(agg, Head(lesion_results), mapping),
                        Tail(lesion_results), mapping)

_agg_lesions_to_concerns_by_max(lesion_results, mapping) ==
    AggLesionsLoop(<<>>, lesion_results, mapping)

(***************************************************************************)
(* _split_other_concerns (AI_Comb_Models_Logicals.py 248-259).             *)
(***************************************************************************)
\* a mutant of SplitTier: the low bound is exclusive
SplitTierExclusiveLow(p, high_thr, low_thr) ==
    IF p >= high_thr THEN "other"
    ELSE IF p > low_thr THEN "low"
    ELSE "dropped"

\* a mutant of SplitTier: the comparison with the low threshold is reversed
SplitTierLowFlipped(p, high_thr, low_thr) ==
    IF p >= high_thr THEN "other"
    ELSE IF p <= low_thr THEN "low"
    ELSE "dropped"

\* the if / elif of the loop
SplitTier(p, high_thr, low_thr) ==
    IF p >= high_thr THEN "other"
    ELSE IF p >= low_thr THEN "low"
    ELSE "dropped"

RECURSIVE SplitLoop(_, _, _, _)
SplitLoop(acc, entries, high_thr, low_thr) ==
    IF entries = <<>> THEN acc
    ELSE LET e == Head(entries)
             d == [label |-> e.k, prob |-> e.v]
             tier == SplitTier(e.v, high_thr, low_thr)
         IN  SplitLoop([other |-> IF tier = "other" THEN Append(acc.other, d) ELSE acc.other,
                        low   |-> IF tier = "low" THEN Append(acc.low, d) ELSE acc.low],
                       Tail(entries), high_thr, low_thr)

\* returns the pair (other, low)
_split_other_concerns(agg_concern_probs, high_thr, low_thr) ==
    LET acc == SplitLoop([other |-> <<>>, low |-> <<>>], agg_concern_probs,
                         high_thr, low_thr)
    IN  <<SortByProbDesc(acc.other), SortByProbDesc(acc.low)>>

(***************************************************************************)
(* ModelRunner.predict_from_bgr (AI_Comb_Models_Logicals.py 127-164) with  *)
(* topk=None.  A runner is its label list together with the probabilities  *)
(* its network gives for the image: the forward pass is not modelled.      *)
(***************************************************************************)
predict_from_bgr(runner) ==
    LET pairs == [i \in 1..Len(runner.labels) |->
                     [label |-> runner.labels[i], prob |-> runner.probs[i]]]
        sorted == SortByProbDesc(pairs)
    IN  [all_results |-> sorted,
         top |-> IF sorted = <<>> THEN None ELSE sorted[1]]

(***************************************************************************)
(* LESION_TO_CONCERN (AI_Comb_Models_Logicals.py 170-206).                 *)
(***************************************************************************)
LESION_TO_CONCERN ==
    [l \in {"Papule", "Pustule", "Nodule", "Cyst"} |-> "Acne"] @@
    ("Comedo" :> "Blackheads") @@
    [l \in {"Dome-shaped", "Acuminate", "Umbilicated"} |-> "Bumps"] @@
    [l \in {"Brown(Hyperpigmentation)", "Pigmented", "Poikiloderma"} |-> "Dark Spots"] @@
    [l \in {"Erythema", "Salmon"} |-> "Redness"] @@
    ("Telangiectasia" :> "Broken Capillaries") @@
    [l \in {"Purpura/Petechiae", "Purple"} |-> "Bruising/Discoloration"] @@
    [l \in {"Scale", "Xerosis", "Fissure"} |-> "Dryness/Flaking"] @@
    [l \in {"Plaque", "Patch", "Lichenification", "Sclerosis"} |-> "Texture/Roughness"] @@
    [l \in {"Erosion", "Ulcer", "Friable"} |-> "Wound/Barrier Damage"] @@
    [l \in {"Exudate", "Crust"} |-> "Oozing/Crusting"] @@
    ("Scar" :> "Scarring") @@ ("Atrophy" :> "Fine Lines/Wrinkles") @@
    [l \in {"Vesicle", "Bulla"} |-> "Blistering"] @@
    ("White(Hypopigmentation)" :> "Hypopigmentation") @@
    [l \in {"Blue", "Black", "Gray", "Translucent"} |-> "Discoloration"] @@
    ("Warty/Papillomatous" :> "Warts/Skin Growth") @@
    ("Pedunculated" :> "Skin Tag") @@
    ("Exophytic/Fungating" :> "Abnormal Growth") @@
    ("Wheal" :> "Hives") @@
    [l \in {"Induration", "Abscess"} |-> "Inflammation/Swelling"] @@
    ("Do not consider this image" :> None) @@
    ("Burrow" :> "Abnormal Finding")

(***************************************************************************)
(* run_combined_AI_from_cv2 (AI_Comb_Models_Logicals.py 262-291).          *)
(***************************************************************************)
\* the defaults of the signature, which are also what app.py passes
cond_threshold_default == 3

lesion_high_thr_default == 6

lesion_low_thr_default == 3

skin_type_labels_default == <<"Oily Skin", "Dry Skin", "Normal Skin">>

\* {d["label"]: float(d["prob"]) for d in all_results}
RECURSIVE DictOfResults(_, _)
DictOfResults(acc, all_results) ==
    IF all_results = <<>> THEN acc
    ELSE DictOfResults(DictSet(acc, Head(all_results).label, Head(all_results).prob),
                       Tail(all_results))

run_combined_AI_from_cv2(lesions_runner, conditions_runner, skin_type_labels, cond_threshold, lesion_high_thr, lesion_low_thr, lesion_mapping) ==
    LET cond_raw == predict_from_bgr(conditions_runner)
        lesion_raw == predict_from_bgr(lesions_runner)
        cond_map == DictOfResults(<<>>, cond_raw.all_results)
        skin_type == _pick_skin_type(cond_map, skin_type_labels)
        skin_concerns == _skin_concerns_from_conditions(cond_raw.all_results,
                                                        skin_type_labels, cond_threshold)
        agg == _agg_lesions_to_concerns_by_max(lesion_raw.all_results, lesion_mapping)
        split == _split_other_concerns(agg, lesion_high_thr, lesion_low_thr)
    IN  IF skin_type.raised # "" THEN skin_type
        ELSE Return([skin_type      |-> skin_type.val,
                     skin_concerns  |-> skin_concerns,
                     other_concerns |-> split[1],
                     low_concerns   |-> split[2]])

(***************************************************************************)
(* combine_probs (Test_Scripts/Combined_Predict.py 105-116; the same code  *)
(* is _combine_probs, Test_Scripts/Simple_Ai_Script.py 140-151).  The      *)
(* module-level COMBINE_METHOD is passed as a parameter.  The result is    *)
(* the fraction num/den the code's expression denotes over the reals;      *)
(* combine_probs_binary64 below is the same code with the rounding of the  *)
(* float it computes with.                                                 *)
(***************************************************************************)
Frac(n, d) == [num |-> n, den |-> d]

FracEq(a, b) == a.num * b.den = b.num * a.den

\* a <= b for fractions whose denominators are positive; the denominators of
\* the aggregates divide one another, so the smaller one is scaled up
FracLeq(a, b) ==
    IF b.den % a.den = 0 THEN a.num * (b.den \div a.den) <= b.num
    ELSE IF a.den % b.den = 0 THEN a.num <= b.num * (a.den \div b.den)
    ELSE a.num * b.den <= b.num * a.den

FracLess(a, b) == ~FracLeq(b, a)

RECURSIVE SeqSum(_)
SeqSum(s) == IF s = <<>> THEN 0 ELSE Head(s) + SeqSum(Tail(s))

RECURSIVE SeqMax(_)
SeqMax(s) == IF Len(s) = 1 THEN s[1] ELSE PyMax(s[1], SeqMax(Tail(s)))

\* prod = 1.0; for p in values: prod *= (1.0 - float(p))
RECURSIVE NoisyProdLoop(_, _)
NoisyProdLoop(prod, values) ==
    IF values = <<>> THEN prod
    ELSE NoisyProdLoop(Frac(prod.num * (20 - Head(values)), prod.den * 20), Tail(values))

\* a mutant of combine_probs: noisy_or falls into the avg branch
combine_probs_avg_for_all(values, COMBINE_METHOD) ==
    IF values = <<>> THEN Frac(0, 1)
    ELSE IF COMBINE_METHOD = "max" THEN Frac(SeqMax(values), 20)
    ELSE Frac(SeqSum(values), 20 * Len(values))

\* a mutant of combine_probs: an empty list gives the empty product
combine_probs_empty_product(values, COMBINE_METHOD) ==
    IF values = <<>> THEN Frac(1, 1)
    ELSE IF COMBINE_METHOD = "max" THEN Frac(SeqMax(values), 20)
    ELSE IF COMBINE_METHOD = "avg" THEN Frac(SeqSum(values), 20 * Len(values))
    ELSE LET prod == NoisyProdLoop(Frac(1, 1), values)
         IN  Frac(prod.den - prod.num, prod.den)

combine_probs(values, COMBINE_METHOD) ==
    IF values = <<>> THEN Frac(0, 1)
    ELSE IF COMBINE_METHOD = "max" THEN Frac(SeqMax(values), 20)
    ELSE IF COMBINE_METHOD = "avg" THEN Frac(SeqSum(values), 20 * Len(values))
    ELSE LET prod == NoisyProdLoop(Frac(1, 1), values)
         IN  Frac(prod.den - prod.num, prod.den)

(***************************************************************************)
(* combine_probs in binary64, the float arithmetic of the source.         *)
(* A natural number of any size is the sequence of its digits in base      *)
(* LimbBase, least significant first, without leading zero digits.  A      *)
(* binary64 value is m * 2^e with m of exactly 53 bits, or zero; the       *)
(* values of the model are in [2^-1000, 1], where binary64 has neither     *)
(* subnormals nor overflow.                                                *)
(***************************************************************************)
LimbBits == 14

LimbBase == 16384

RECURSIVE Pow2(_)
Pow2(n) == IF n = 0 THEN 1 ELSE 2 * Pow2(n - 1)

RECURSIVE BitLenSmall(_)
BitLenSmall(x) == IF x = 0 THEN 0 ELSE 1 + BitLenSmall(x \div 2)

RECURSIVE BigNorm(_)
BigNorm(a) ==
    IF a = <<>> THEN a
    ELSE IF a[Len(a)] = 0 THEN BigNorm(SubSeq(a, 1, Len(a) - 1))
    ELSE a

Limb(a, i) == IF i \in 1..Len(a) THEN a[i] ELSE 0

\* the digits of the number whose digit sums are cols
RECURSIVE BigCarry(_, _)
BigCarry(cols, carry) ==
    IF cols = <<>>
    THEN IF carry = 0 THEN <<>> ELSE <<carry % LimbBase>> \o BigCarry(<<>>, carry \div LimbBase)
    ELSE LET t == Head(cols) + carry
         IN  <<t % LimbBase>> \o BigCarry(Tail(cols), t \div LimbBase)

BigAdd(a, b) ==
    LET n == IF Len(a) > Len(b) THEN Len(a) ELSE Len(b)
    IN  BigNorm(BigCarry([i \in 1..n |-> Limb(a, i) + Limb(b, i)], 0))

\* a - b for a >= b
RECURSIVE BigSubLoop(_, _, _, _)
BigSubLoop(a, b, i, borrow) ==
    IF i > Len(a) THEN <<>>
    ELSE LET t == a[i] - Limb(b, i) - borrow
         IN  IF t < 0 THEN <<t + LimbBase>> \o BigSubLoop(a, b, i + 1, 1)
             ELSE <<t>> \o BigSubLoop(a, b, i + 1, 0)

BigSub(a, b) == BigNorm(BigSubLoop(a, b, 1, 0))

RECURSIVE BigColumn(_, _, _, _)
BigColumn(a, b, k, i) ==
    IF i > Len(a) THEN 0
    ELSE a[i] * Limb(b, k + 1 - i) + BigColumn(a, b, k, i + 1)

\* a * b for factors of at most four digits
BigMul(a, b) ==
    IF a = <<>> \/ b = <<>> THEN <<>>
    ELSE BigNorm(BigCarry([k \in 1..(Len(a) + Len(b) - 1) |-> BigColumn(a, b, k, 1)], 0))

RECURSIVE BigLessFrom(_, _, _)
BigLessFrom(a, b, i) ==
    IF i = 0 THEN FALSE
    ELSE IF a[i] # b[i] THEN a[i] < b[i]
    ELSE BigLessFrom(a, b, i - 1)

BigLess(a, b) ==
    IF Len(a) # Len(b) THEN Len(a) < Len(b) ELSE BigLessFrom(a, b, Len(a))

BigBitLen(a) ==
    IF a = <<>> THEN 0 ELSE (Len(a) - 1) * LimbBits + BitLenSmall(a[Len(a)])

\* a * 2^n
BigShl(a, n) ==
    IF a = <<>> THEN <<>>
    ELSE [i \in 1..(n \div LimbBits) |-> 0]
             \o BigCarry([i \in 1..Len(a) |-> a[i] * Pow2(n % LimbBits)], 0)

\* a \div 2^n
BigShr(a, n) ==
    LET r == n % LimbBits
        kept == SubSeq(a, (n \div LimbBits) + 1, Len(a))
    IN  BigNorm([i \in 1..Len(kept) |->
                    (kept[i] \div Pow2(r)) + (Limb(kept, i + 1) % Pow2(r)) * Pow2(LimbBits - r)])

BigPow2(n) == BigShl(<<1>>, n)

\* a \div d and a % d for 0 < d < LimbBase, from the most significant digit
RECURSIVE BigDivSmallLoop(_, _, _, _)
BigDivSmallLoop(a, d, i, rem) ==
    IF i = 0 THEN [q |-> <<>>, r |-> rem]
    ELSE LET t == rem * LimbBase + a[i]
             rest == BigDivSmallLoop(a, d, i - 1, t % d)
         IN  [q |-> Append(rest.q, t \div d), r |-> rest.r]

BigDivSmall(a, d) ==
    LET res == BigDivSmallLoop(a, d, Len(a), 0)
    IN  [q |-> BigNorm(res.q), r |-> res.r]

F64Zero == [m |-> <<>>, e |-> 0]

F64One == [m |-> BigPow2(52), e |-> -52]

\* n * 2^e rounded to the nearest binary64, ties to even
F64Round(n, e) ==
    LET len == BigBitLen(n)
        s == len - 53
        q == BigShr(n, s)
        rem == BigSub(n, BigShl(q, s))
        half == BigPow2(s - 1)
        up == BigLess(half, rem) \/ (rem = half /\ q[1] % 2 = 1)
        q1 == IF up THEN BigAdd(q, <<1>>) ELSE q
    IN  IF n = <<>> THEN F64Zero
        ELSE IF len <= 53 THEN [m |-> BigShl(n, 53 - len), e |-> e - (53 - len)]
        ELSE IF BigBitLen(q1) = 54 THEN [m |-> BigShr(q1, 1), e |-> e + s + 1]
        ELSE [m |-> q1, e |-> e + s]

\* x * y
F64Mul(x, y) ==
    IF x.m = <<>> \/ y.m = <<>> THEN F64Zero
    ELSE F64Round(BigMul(x.m, y.m), x.e + y.e)

\* 1.0 - x for 0 <= x <= 1
F64OneMinus(x) ==
    IF x.m = <<>> THEN F64One
    ELSE F64Round(BigSub(BigPow2(-x.e), x.m), x.e)

\* the binary64 nearest to n / d, for 0 <= n and 1 <= n * 32 / d: what the
\* float n / d of the model is in the source
F64FromRatio(n, d) ==
    LET res == BigDivSmall(BigShl(BigCarry(<<n>>, 0), 60), d)
        sticky == BigAdd(BigShl(res.q, 1), IF res.r > 0 THEN <<1>> ELSE <<>>)
    IN  IF n = 0 THEN F64Zero ELSE F64Round(sticky, -61)

\* the contributors as the floats the caller holds: v / 20 in binary64
FloatsOf(values) == [i \in 1..Len(values) |-> F64FromRatio(values[i], 20)]

\* x < y
F64Less(x, y) ==
    IF y.m = <<>> THEN FALSE
    ELSE IF x.m = <<>> THEN TRUE
    ELSE IF x.e # y.e THEN x.e < y.e
    ELSE BigLess(x.m, y.m)

\* x + y
F64Add(x, y) ==
    IF x.m = <<>> THEN y
    ELSE IF y.m = <<>> THEN x
    ELSE LET emin == IF x.e < y.e THEN x.e ELSE y.e
         IN  F64Round(BigAdd(BigShl(x.m, x.e - emin), BigShl(y.m, y.e - emin)), emin)

\* x / d for an integer 0 < d < LimbBase
F64DivSmall(x, d) ==
    LET res == BigDivSmall(BigShl(x.m, 60), d)
        sticky == BigAdd(BigShl(res.q, 1), IF res.r > 0 THEN <<1>> ELSE <<>>)
    IN  IF x.m = <<>> THEN F64Zero ELSE F64Round(sticky, x.e - 61)

\* x - y for x >= y
F64Sub(x, y) ==
    IF y.m = <<>> THEN x
    ELSE LET emin == IF x.e < y.e THEN x.e ELSE y.e
         IN  F64Round(BigSub(BigShl(x.m, x.e - emin), BigShl(y.m, y.e - emin)), emin)

RECURSIVE BigToInt(_)
BigToInt(a) == IF a = <<>> THEN 0 ELSE Head(a) + LimbBase * BigToInt(Tail(a))

\* the integer nearest to x * 10^6, ties to even, for 0 <= x <= 1
Millionths(x) ==
    LET prod == BigMul(x.m, <<576, 61>>)
        s == -x.e
        q == BigShr(prod, s)
        rem == BigSub(prod, BigShl(q, s))
        half == BigPow2(s - 1)
        up == BigLess(half, rem) \/ (rem = half /\ Limb(q, 1) % 2 = 1)
    IN  IF x.m = <<>> THEN 0 ELSE BigToInt(q) + (IF up THEN 1 ELSE 0)

\* the binary64 nearest to n / 10^6
F64FromMillionths(n) ==
    LET first == BigDivSmall(BigShl(BigCarry(<<n>>, 0), 80), 1000)
        second == BigDivSmall(first.q, 1000)
        sticky == BigAdd(BigShl(second.q, 1),
                         IF first.r > 0 \/ second.r > 0 THEN <<1>> ELSE <<>>)
    IN  IF n = 0 THEN F64Zero ELSE F64Round(sticky, -81)

\* round(float(p), 6)
Round6(p) == F64FromMillionths(Millionths(p))

\* max(values): the first of the largest
RECURSIVE F64SeqMax(_)
F64SeqMax(s) ==
    IF Len(s) = 1 THEN s[1]
    ELSE LET rest == F64SeqMax(Tail(s))
         IN  IF F64Less(s[1], rest) THEN rest ELSE s[1]

\* sum(values), added from the left
RECURSIVE F64SeqSum(_, _)
F64SeqSum(acc, s) ==
    IF s = <<>> THEN acc ELSE F64SeqSum(F64Add(acc, Head(s)), Tail(s))

\* prod = 1.0; for p in values: prod *= (1.0 - float(p)), in binary64
RECURSIVE NoisyProdLoopBinary64(_, _)
NoisyProdLoopBinary64(prod, values) ==
    IF values = <<>> THEN prod
    ELSE NoisyProdLoopBinary64(F64Mul(prod, F64OneMinus(Head(values))), Tail(values))

\* a mutant of combine_probs_binary64: the loop assigns the last factor
\* instead of multiplying by it
combine_probs_binary64_last_factor(values, COMBINE_METHOD) ==
    IF values = <<>> THEN F64Zero
    ELSE IF COMBINE_METHOD = "max" THEN F64SeqMax(values)
    ELSE IF COMBINE_METHOD = "avg" THEN F64DivSmall(F64SeqSum(F64Zero, values), Len(values))
    ELSE F64OneMinus(F64OneMinus(values[Len(values)]))

\* combine_probs on the binary64 values the source computes with
combine_probs_binary64(values, COMBINE_METHOD) ==
    IF values = <<>> THEN F64Zero
    ELSE IF COMBINE_METHOD = "max" THEN F64SeqMax(values)
    ELSE IF COMBINE_METHOD = "avg" THEN F64DivSmall(F64SeqSum(F64Zero, values), Len(values))
    ELSE F64OneMinus(NoisyProdLoopBinary64(F64One, values))

(***************************************************************************)
(* _canonical_skin_name and _pick_skin_type of the script variant          *)
(* (Test_Scripts/Simple_Ai_Script.py 153-154, 312-321).  A raw class name  *)
(* is the sequence of its characters, so that strip() and lower() are      *)
(* computed; a canonical name is a value of SKIN_ALIASES.                  *)
(***************************************************************************)
NoneName == <<"<None>">>

Whitespace == {" ", "\t", "\n"}

UpperLetters == <<"A", "B", "C", "D", "E", "F", "G", "H", "I", "J", "K", "L", "M",
                  "N", "O", "P", "Q", "R", "S", "T", "U", "V", "W", "X", "Y", "Z">>

LowerLetters == <<"a", "b", "c", "d", "e", "f", "g", "h", "i", "j", "k", "l", "m",
                  "n", "o", "p", "q", "r", "s", "t", "u", "v", "w", "x", "y", "z">>

LowerChar(c) ==
    IF \E i \in 1..Len(UpperLetters) : UpperLetters[i] = c
    THEN LowerLetters[CHOOSE i \in 1..Len(UpperLetters) : UpperLetters[i] = c]
    ELSE c

\* str.lower()
StrLower(s) == [i \in 1..Len(s) |-> LowerChar(s[i])]

\* str.strip()
RECURSIVE StrStrip(_)
StrStrip(s) ==
    IF s = <<>> THEN s
    ELSE IF Head(s) \in Whitespace THEN StrStrip(Tail(s))
    ELSE IF s[Len(s)] \in Whitespace THEN StrStrip(SubSeq(s, 1, Len(s) - 1))
    ELSE s

SKIN_ALIASES ==
    (<<"o", "i", "l", "y", " ", "s", "k", "i", "n">> :> "Oily Skin") @@
    (<<"o", "i", "l", "y">> :> "Oily Skin") @@
    (<<"n", "o", "r", "m", "a", "l", " ", "s", "k", "i", "n">> :> "Normal Skin") @@
    (<<"n", "o", "r", "m", "a", "l">> :> "Normal Skin") @@
    (<<"d", "r", "y", " ", "s", "k", "i", "n">> :> "Dry Skin") @@
    (<<"d", "r", "y">> :> "Dry Skin")

SKIN_SET == {"Oily Skin", "Normal Skin", "Dry Skin"}

\* SKIN_ALIASES.get((name or "").strip().lower())
_canonical_skin_name(name) ==
    LET key == StrLower(StrStrip(IF name = NoneName THEN <<>> ELSE name))
    IN  IF key \in DOMAIN SKIN_ALIASES THEN SKIN_ALIASES[key] ELSE None

\* the loop that collects (canon, prob) for the classes that name a skin type
RECURSIVE SkinItemsLoop(_, _, _)
SkinItemsLoop(skin_items, classes, probs) ==
    IF classes = <<>> THEN skin_items
    ELSE LET canon == _canonical_skin_name(Head(classes))
         IN  SkinItemsLoop(IF canon \in SKIN_SET
                           THEN Append(skin_items, [label |-> canon, prob |-> Head(probs)])
                           ELSE skin_items,
                           Tail(classes), Tail(probs))

\* skin_items.sort(key=lambda z: -z[1]); return skin_items[0].  The pair
\* (canon, prob) is the record [label, prob].
Simple_Ai_Script_pick_skin_type(classes, probs) ==
    LET skin_items == SkinItemsLoop(<<>>, classes, probs)
    IN  IF skin_items = <<>> THEN None
        ELSE SortByProbDesc(skin_items)[1]

(***************************************************************************)
(* canonical_skin_name and split_skin_vs_concerns of the conditions        *)
(* script (Test_Scripts/Skin_conditions_Model_predict.py 145-170).  This   *)
(* canonical_skin_name calls name.strip() on the name itself, so None      *)
(* raises; canonical_skin_name of Combined_Predict.py (118-119) is the     *)
(* code of _canonical_skin_name above.  ranked is a list of (label, prob)  *)
(* pairs, here records.                                                    *)
(***************************************************************************)
Skin_conditions_canonical_skin_name(name) ==
    IF name = NoneName THEN Raise("AttributeError")
    ELSE LET key == StrLower(StrStrip(name))
         IN  Return(IF key \in DOMAIN SKIN_ALIASES THEN SKIN_ALIASES[key] ELSE None)

\* max(skin_candidates, key=lambda z: z[2]): the first of the largest
RECURSIVE MaxByProbFirst(_)
MaxByProbFirst(s) ==
    IF Len(s) = 1 THEN s[1]
    ELSE LET rest == MaxByProbFirst(Tail(s))
         IN  IF rest.prob > s[1].prob THEN rest ELSE s[1]

\* a mutant of SplitFallback: the last entry of the list
SplitFallbackLast(ranked) == IF ranked # <<>> THEN ranked[Len(ranked)] ELSE None

\* ranked[0] if ranked else None
SplitFallback(ranked) == IF ranked # <<>> THEN ranked[1] ELSE None

split_skin_vs_concerns(ranked) ==
    LET canon(d) == Skin_conditions_canonical_skin_name(d.label)
        is_skin(d) == canon(d).val \in SKIN_SET
        is_concern(d) == canon(d).val = None
        skin_candidates == SelectSeq(ranked, is_skin)
    IN  IF \E i \in 1..Len(ranked) : canon(ranked[i]).raised # ""
        THEN Raise("AttributeError")
        ELSE Return([skin_top |-> IF skin_candidates # <<>>
                                  THEN MaxByProbFirst(skin_candidates)
                                  ELSE SplitFallback(ranked),
                     concerns |-> SelectSeq(ranked, is_concern)])

(***************************************************************************)
(* CONCERN_MAP and IGNORE_CLASSES of the script variants                   *)
(* (Test_Scripts/Simple_Ai_Script.py 51-86, Combined_Predict.py 56-91).    *)
(***************************************************************************)
CONCERN_MAP ==
    ("Acne" :> "Acne & Breakouts") @@
    ("Blackheads" :> "Blackheads & Congestion") @@
    ("Wrinkles" :> "Fine Lines & Wrinkles") @@
    ("Dark Spots" :> "Dark Spots & Pigmentation") @@
    ("Papule" :> "Inflamed Bumps (Papules)") @@
    ("Pustule" :> "Whiteheads / Pustules") @@
    ("Comedo" :> "Comedones (Clogged Pores)") @@
    ("Nodule" :> "Deep Nodules") @@
    ("Brown(Hyperpigmentation)" :> "Brown Hyperpigmentation") @@
    ("Macule" :> "Flat Spots (Macules)") @@
    ("White(Hypopigmentation)" :> "Light Spots (Hypopigmentation)") @@
    ("Erythema" :> "Redness & Irritation") @@
    ("Telangiectasia" :> "Broken Capillaries") @@
    ("Wheal" :> "Hives / Wheals") @@
    ("Patch" :> "Dry Patches & Roughness") @@
    ("Plaque" :> "Thick Patches (Plaques)") @@
    ("Scale" :> "Flaky Skin (Scaling)") @@
    ("Crust" :> "Scabbing & Crusts") @@
    ("Scar" :> "Scarring") @@
    ("Atrophy" :> "Skin Thinning (Atrophy)") @@
    ("Induration" :> "Firmness & Thickening (Induration)") @@
    ("Sclerosis" :> "Hardening (Sclerosis)") @@
    ("Erosion" :> "Surface Erosion") @@
    ("Ulcer" :> "Deep Ulceration") @@
    ("Yellow" :> "Uneven Tone (Yellowish)") @@
    ("Purple" :> "Discoloration (Purplish)") @@
    ("Black" :> "Discoloration (Darkening)")

IGNORE_CLASSES == {"Do not consider this image"}

(***************************************************************************)
(* analyze_face_skin and its helpers (Test_Scripts/Simple_Ai_Script.py     *)
(* 323-389).  The two inference calls are not modelled: the classes and    *)
(* probabilities they return are arguments.  A class of the conditions     *)
(* model is a sequence of characters, a label of the lesions model and a   *)
(* key of CONCERN_MAP a string.  The probabilities of the classifiers are  *)
(* twentieths; what the code computes from them is computed in binary64.   *)
(***************************************************************************)
FINAL_MIN_PROB == 6

EPSILON == 1

Script_COMBINE_METHOD == "noisy_or"

\* the string a character sequence spells, for the class names of the model
ClassStrings ==
    (<<"O", "i", "l", "y", " ", "S", "k", "i", "n">> :> "Oily Skin") @@
    (<<"D", "r", "y", " ", "S", "k", "i", "n">> :> "Dry Skin") @@
    (<<"A", "c", "n", "e">> :> "Acne") @@
    (<<"W", "r", "i", "n", "k", "l", "e", "s">> :> "Wrinkles")

StrOf(chars) == IF chars \in DOMAIN ClassStrings THEN ClassStrings[chars] ELSE "<other>"

\* CONCERN_MAP.get(raw)
ConcernMapGet(raw) == IF raw \in DOMAIN CONCERN_MAP THEN CONCERN_MAP[raw] ELSE None

\* out.setdefault(bucket, []).append(p)
BucketAppend(out, bucket, p) == DictSet(out, bucket, Append(DictGet(out, bucket, <<>>), p))

RECURSIVE _collect_concerns_from_conditions(_, _, _)
_collect_concerns_from_conditions(out, classes, probs) ==
    IF classes = <<>> THEN out
    ELSE LET raw == Head(classes)
             bucket == ConcernMapGet(StrOf(raw))
         IN  _collect_concerns_from_conditions(
                 IF StrOf(raw) \in IGNORE_CLASSES THEN out
                 ELSE IF _canonical_skin_name(raw) # None THEN out
                 ELSE IF bucket = None THEN out
                 ELSE BucketAppend(out, bucket, Head(probs)),
                 Tail(classes), Tail(probs))

RECURSIVE _collect_concerns_from_lesions(_, _, _)
_collect_concerns_from_lesions(out, labels, probs) ==
    IF labels = <<>> THEN out
    ELSE LET raw == Head(labels)
             bucket == ConcernMapGet(raw)
         IN  _collect_concerns_from_lesions(
                 IF raw \in IGNORE_CLASSES THEN out
                 ELSE IF bucket = None THEN out
                 ELSE BucketAppend(out, bucket, Head(probs)),
                 Tail(labels), Tail(probs))

\* the loop over keys = set(a.keys()) | set(b.keys()); the iteration order of
\* a set of strings is not fixed by the language, so it is the argument keys
RECURSIVE CombineBucketsLoop(_, _, _, _)
CombineBucketsLoop(merged, keys, a, b) ==
    IF keys = <<>> THEN merged
    ELSE LET k == Head(keys)
             vals == DictGet(a, k, <<>>) \o DictGet(b, k, <<>>)
         IN  CombineBucketsLoop(
                 DictSet(merged, k,
                         combine_probs_binary64(FloatsOf(vals), Script_COMBINE_METHOD)),
                 Tail(keys), a, b)

_combine_concern_buckets(a, b, set_order) ==
    LET in_keys(k) == k \in DictKeys(a) \cup DictKeys(b)
    IN  CombineBucketsLoop(<<>>, SelectSeq(set_order, in_keys), a, b)

\* list.sort(key=lambda z: -z[1]) on (name, float) pairs: stable, descending
RECURSIVE InsertByFloatDesc(_, _)
InsertByFloatDesc(sorted, x) ==
    IF sorted = <<>> THEN <<x>>
    ELSE IF ~F64Less(Head(sorted).v, x.v)
         THEN <<Head(sorted)>> \o InsertByFloatDesc(Tail(sorted), x)
         ELSE <<x>> \o sorted

RECURSIVE SortByFloatDesc(_)
SortByFloatDesc(s) ==
    IF s = <<>> THEN <<>>
    ELSE InsertByFloatDesc(SortByFloatDesc(SubSeq(s, 1, Len(s) - 1)), s[Len(s)])

\* FINAL_MIN_PROB - EPSILON
MainThreshold == F64Sub(F64FromRatio(FINAL_MIN_PROB, 20), F64FromRatio(EPSILON, 20))

\* v >= (FINAL_MIN_PROB - EPSILON)
IsMainConcern(v) == ~F64Less(v, MainThreshold)

\* a mutant of IsLowConcern: the upper limit of the low band is forgotten
IsLowConcernNoUpperLimit(v) == F64Less(F64FromRatio(EPSILON, 20), v)

\* v > EPSILON and v < (FINAL_MIN_PROB - EPSILON)
IsLowConcern(v) == F64Less(F64FromRatio(EPSILON, 20), v) /\ F64Less(v, MainThreshold)

analyze_face_skin(cond_classes, cond_probs, lesions_labels, lesions_probs, set_order) ==
    LET skin_type == Simple_Ai_Script_pick_skin_type(cond_classes, cond_probs)
        concerns_a_all == _collect_concerns_from_conditions(<<>>, cond_classes, cond_probs)
        concerns_b_all == _collect_concerns_from_lesions(<<>>, lesions_labels, lesions_probs)
        combined_concerns == _combine_concern_buckets(concerns_a_all, concerns_b_all, set_order)
        is_main(e) == IsMainConcern(e.v)
        is_low(e) == IsLowConcern(e.v)
        main_concerns == SortByFloatDesc(SelectSeq(combined_concerns, is_main))
        low_concerns == SortByFloatDesc(SelectSeq(combined_concerns, is_low))
        out(l) == [i \in 1..Len(l) |-> [label |-> l[i].k, prob |-> Round6(l[i].v)]]
    IN  [combine_method |-> Script_COMBINE_METHOD,
         skin_type      |-> IF IsNone(skin_type) THEN None
                            ELSE [label |-> skin_type.label,
                                  prob  |-> Round6(F64FromRatio(skin_type.prob, 20))],
         main_concerns  |-> out(main_concerns),
         low_concerns   |-> out(low_concerns),
         thresholds     |-> [final_min_prob |-> FINAL_MIN_PROB, epsilon |-> EPSILON]]

(***************************************************************************)
(* _analyze_face_from_path (app.py 1021-1033): the image is read, the two  *)
(* runners are applied under the thresholds written in the call, and the   *)
(* combined result is merged.  img_bgr is what cv2.imread returned, None   *)
(* for a file it cannot read.  The runners are those _ensure_models has    *)
(* set; its steps are the subject of the requests below.  The call writes *)
(* cond_threshold=0.15, lesion_high_thr=0.30, lesion_low_thr=0.15: 3, 6    *)
(* and 3 twentieths.                                                       *)
(***************************************************************************)
_analyze_face_from_path(img_bgr, lesions_runner, conditions_runner) ==
    LET combined == run_combined_AI_from_cv2(lesions_runner, conditions_runner,
                                             skin_type_labels_default, 3, 6, 3,
                                             LESION_TO_CONCERN)
    IN  IF img_bgr = None THEN Raise("ValueError")
        ELSE IF combined.raised # "" THEN combined
        ELSE Return(<<combined.val, merge_concerns_sections(combined.val)>>)

(***************************************************************************)
(* Concurrent analysis requests.  app.run (app.py 1940) serves requests in *)
(* threads of one process; each request runs _analyze_face_from_path:      *)
(* _ensure_models (app.py 367-394), then run_combined_AI_from_cv2, whose   *)
(* predict_from_bgr calls (AI_Comb_Models_Logicals.py 274-275, 136) run    *)
(* ModelRunner._ensure_loaded (88-125) on the conditions runner and then   *)
(* on the lesions runner.  A step of a request is one read or one write of *)
(* shared data, or one block run under _model_lock.  A ModelRunner is an   *)
(* element of runners, named by its index (0 is None); loads records each  *)
(* torch.load / torch.jit.load that was performed, and the _model of a     *)
(* runner is the index of the load that gave it (0 is None).               *)
(***************************************************************************)
Threads == 1..MaxRequests

NoRequestYet ==
    /\ _lesions_runner = 0
    /\ _conditions_runner = 0
    /\ _model_lock = 0
    /\ runners = <<>>
    /\ loads = <<>>
    /\ threads = [t \in Threads |-> [pc |-> "_ensure_models", self |-> 0,
                                     lesions_runner |-> 0, conditions_runner |-> 0,
                                     m |-> 0]]

At(t, label) == threads[t].pc = label

\* a mutant of IsUnset: the test under the lock is left out
IsUnsetNotTested(runner) == TRUE

\* if _lesions_runner is None: / if _conditions_runner is None:, under the lock
IsUnset(runner) == runner = 0

\* ModelRunner(weights_path=..., ...): _model is None
NewRunner(weights_path) == [weights_path |-> weights_path, _model |-> 0]

(***************************************************************************)
(* The calls.  A behaviour is one call: the initial state holds the        *)
(* function called and its arguments, drawn from the sets below, and the   *)
(* one step applies the function and stores what it returns or raises.     *)
(***************************************************************************)
MergeLabels == {"Acne", "Redness"}

MergeProbs == {6, 10, 12}

MergeItems == [label : MergeLabels, prob : MergeProbs]

\* a section that is empty may also be missing from the combined result
ArgsMerge ==
    \E n1 \in 0..MaxItems :
    \E n2 \in 0..(MaxItems - n1) :
    \E n3 \in 0..(MaxItems - n1 - n2) :
    \E s1 \in [1..n1 -> MergeItems], s2 \in [1..n2 -> MergeItems],
       s3 \in [1..n3 -> MergeItems] :
    \E missing \in SUBSET SectionKeys :
       LET full == [skin_concerns |-> s1, other_concerns |-> s2, low_concerns |-> s3]
       IN  /\ \A k \in missing : full[k] = <<>>
           /\ call = "merge_concerns_sections"
           /\ arg = [combined |-> [k \in SectionKeys \ missing |-> full[k]]]

\* an aggregated map: distinct concerns, each with a probability
SplitLabels == {"Acne", "Blackheads", "Redness"}

SplitProbs == {0, 2, 3, 4, 6, 10, 12, 20}

\* (high_thr, low_thr): the shipped pair, equal thresholds, a wider band and
\* an inverted pair
SplitThresholds == {<<6, 3>>, <<6, 6>>, <<10, 3>>, <<3, 6>>}

DictsOver(K, V, n) ==
    {d \in SeqsUpTo([k : K, v : V], n) :
        \A i, j \in 1..Len(d) : i # j => d[i].k # d[j].k}

ArgsSplit ==
    \E agg \in DictsOver(SplitLabels, SplitProbs, MaxConcerns) :
    \E thr \in SplitThresholds :
       /\ call = "_split_other_concerns"
       /\ arg = [agg_concern_probs |-> agg, high_thr |-> thr[1], low_thr |-> thr[2]]

PickLabels == {"Oily Skin", "Dry Skin", "Normal Skin"}

PickProbs == {0, 4, 8}

ArgsPick ==
    \E prob_map \in DictsOver(PickLabels, PickProbs, Cardinality(PickLabels)) :
    \E skin_type_labels \in SeqsUpTo(PickLabels, MaxCands) :
       /\ call = "_pick_skin_type"
       /\ arg = [prob_map |-> prob_map, skin_type_labels |-> skin_type_labels]

\* two lesions with a concern in the shipped table, the sentinel the shipped
\* table maps to None, and a label of the lesions model it does not list
AggLabels == {"Papule", "Comedo", "Do not consider this image", "Excoriation"}

AggProbs == {4, 10}

AggConcerns == {"Acne", "Blackheads"}

\* the shipped table, and every mapping of some of these labels to a concern
\* or to None
AggMappings ==
    {LESION_TO_CONCERN} \cup
    UNION {[D -> AggConcerns \cup {None}] : D \in SUBSET {"Papule", "Comedo"}}

\* the lesion predictions of the spec's end-to-end example
LesionExample ==
    <<[label |-> "Papule", prob |-> 10], [label |-> "Pustule", prob |-> 4],
      [label |-> "Comedo", prob |-> 2]>>

ArgsAgg ==
    \E lesion_results \in SeqsUpTo([label : AggLabels, prob : AggProbs], MaxPreds)
                              \cup {LesionExample} :
    \E mapping \in AggMappings :
       /\ call = "_agg_lesions_to_concerns_by_max"
       /\ arg = [lesion_results |-> lesion_results, mapping |-> mapping]

CombineProbs == {0, 2, 4, 10, 20}

CombineMethods == {"max", "avg", "noisy_or"}

ArgsCombine ==
    \E values \in SeqsUpTo(CombineProbs, MaxContrib) :
    \E method \in CombineMethods :
       /\ call = "combine_probs"
       /\ arg = [values |-> values, COMBINE_METHOD |-> method]

\* contributors in twentieths: 0.0, 0.1, 0.2 and 1.0
CombineProbsBinary64 == {0, 2, 4, 20}

\* the same call, computed in binary64
ArgsCombineBinary64 ==
    \E values \in SeqsUpTo(CombineProbsBinary64, MaxContrib) :
    \E method \in CombineMethods :
       /\ call = "combine_probs in binary64"
       /\ arg = [values |-> values, COMBINE_METHOD |-> method]

\* class names as a conditions checkpoint may list them
RawClassNames ==
    {<<"O", "i", "l", "y", " ", "S", "k", "i", "n">>,
     <<"D", "r", "y", " ", "S", "k", "i", "n">>,
     <<" ", "N", "O", "R", "M", "A", "L", "\n">>,
     <<"A", "c", "n", "e">>}

ClassProbs == {4, 8}

\* the classes and their probabilities, in the order of the classifier's output
ArgsScriptPick ==
    \E n \in 0..MaxClasses :
    \E classes \in [1..n -> RawClassNames], probs \in [1..n -> ClassProbs] :
       /\ call = "Simple_Ai_Script._pick_skin_type"
       /\ arg = [classes |-> classes, probs |-> probs]

\* the labels of the two runners: a conditions model whose checkpoint lists a
\* class that no table knows, and four classes of the lesions model
ConditionsLabels == <<"Acne", "Oily Skin", "Dry Skin", "Eczema">>

LesionsLabels == <<"Papule", "Pustule", "Comedo", "Do not consider this image">>

ConditionsProbs == {2, 3, 8}

LesionsProbs == {2, 4, 6, 10}

\* (lesion_high_thr, lesion_low_thr): the shipped pair and an inverted pair
LesionThresholds == {<<lesion_high_thr_default, lesion_low_thr_default>>, <<3, 6>>}

\* the candidate labels: the shipped default, and none
SkinTypeLabelChoices == {skin_type_labels_default, <<>>}

ArgsRunCombined ==
    \E cp \in [1..Len(ConditionsLabels) -> ConditionsProbs] :
    \E lp \in [1..Len(LesionsLabels) -> LesionsProbs] :
    \E thr \in LesionThresholds :
    \E skin_type_labels \in SkinTypeLabelChoices :
       /\ call = "run_combined_AI_from_cv2"
       /\ arg = [lesions_runner    |-> [labels |-> LesionsLabels, probs |-> lp],
                 conditions_runner |-> [labels |-> ConditionsLabels, probs |-> cp],
                 skin_type_labels  |-> skin_type_labels,
                 cond_threshold    |-> cond_threshold_default,
                 lesion_high_thr   |-> thr[1],
                 lesion_low_thr    |-> thr[2],
                 lesion_mapping    |-> LESION_TO_CONCERN]

\* the classes of the two models for analyze_face_skin: a class the lesions
\* model shares with the conditions model, the sentinel, and two skin types
ScriptCondClasses ==
    << <<"O", "i", "l", "y", " ", "S", "k", "i", "n">>,
       <<"D", "r", "y", " ", "S", "k", "i", "n">>,
       <<"A", "c", "n", "e">>,
       <<"W", "r", "i", "n", "k", "l", "e", "s">> >>

ScriptLesionLabels == <<"Acne", "Papule", "Do not consider this image">>

ScriptCondProbs == {1, 5, 8}

ScriptLesionProbs == {1, 4, 6}

\* the buckets these classes can reach
ScriptBuckets ==
    ({ConcernMapGet(StrOf(ScriptCondClasses[i])) : i \in 1..Len(ScriptCondClasses)}
        \cup {ConcernMapGet(ScriptLesionLabels[i]) : i \in 1..Len(ScriptLesionLabels)})
    \ {None}

\* the orders in which a set may be iterated
SetOrders(S) == {o \in [1..Cardinality(S) -> S] : Range(o) = S}

\* the probabilities of the two skin types, and of the sentinel class
ScriptSkinProbs == {1, 8}

ScriptSentinelProbs == {6}

ArgsAnalyze ==
    \E cp \in {f \in [1..Len(ScriptCondClasses) -> ScriptCondProbs \cup ScriptSkinProbs] :
                  \A i \in 1..Len(ScriptCondClasses) :
                      f[i] \in IF _canonical_skin_name(ScriptCondClasses[i]) # None
                               THEN ScriptSkinProbs ELSE ScriptCondProbs} :
    \E lp \in {f \in [1..Len(ScriptLesionLabels) -> ScriptLesionProbs \cup ScriptSentinelProbs] :
                  \A i \in 1..Len(ScriptLesionLabels) :
                      f[i] \in IF ScriptLesionLabels[i] \in IGNORE_CLASSES
                               THEN ScriptSentinelProbs ELSE ScriptLesionProbs} :
    \E set_order \in SetOrders(ScriptBuckets) :
       /\ call = "analyze_face_skin"
       /\ arg = [cond_classes   |-> ScriptCondClasses,
                 cond_probs     |-> cp,
                 lesions_labels |-> ScriptLesionLabels,
                 lesions_probs  |-> lp,
                 set_order      |-> set_order]

\* what the two networks give for the image of a request
PathConditionsProbs == {2, 8}

PathLesionsProbs == {2, 4, 6}

ArgsAnalyzePath ==
    \E img_bgr \in {None, "image"} :
    \E cp \in [1..Len(ConditionsLabels) -> PathConditionsProbs] :
    \E lp \in [1..Len(LesionsLabels) -> PathLesionsProbs] :
       /\ call = "_analyze_face_from_path"
       /\ arg = [img_bgr           |-> img_bgr,
                 lesions_runner    |-> [labels |-> LesionsLabels, probs |-> lp],
                 conditions_runner |-> [labels |-> ConditionsLabels, probs |-> cp]]

\* a combined result as objects: the items of the three sections, the three
\* lists and the dict that holds them
HeapOfCombined(s1, s2, s3) ==
    LET items == s1 \o s2 \o s3
        n == Len(items)
    IN  [i \in 1..n |-> Object("item", items[i].label, items[i].prob, <<>>)]
        \o <<Object("reflist", "", 0, [i \in 1..Len(s1) |-> i]),
             Object("reflist", "", 0, [i \in 1..Len(s2) |-> Len(s1) + i]),
             Object("reflist", "", 0, [i \in 1..Len(s3) |-> Len(s1) + Len(s2) + i]),
             Object("dict", "", 0, <<[k |-> "skin_concerns", v |-> n + 1],
                                     [k |-> "other_concerns", v |-> n + 2],
                                     [k |-> "low_concerns", v |-> n + 3]>>)>>

HeapItems == [label : MergeLabels, prob : {6, 10}]

ArgsMergeOnHeap ==
    \E s1 \in SeqsUpTo(HeapItems, 1), s2 \in SeqsUpTo(HeapItems, 2),
       s3 \in SeqsUpTo(HeapItems, 1) :
       /\ call = "merge_concerns_sections on objects"
       /\ arg = [heap     |-> HeapOfCombined(s1, s2, s3),
                 combined |-> Len(s1) + Len(s2) + Len(s3) + 4]

\* names handed to canonical_skin_name: aliases as written, with other case
\* and surrounding whitespace, names that contain an alias or the letters of
\* one, other names, the empty name and a missing name
CanonNames ==
    {<<"O", "i", "l", "y", " ", "S", "k", "i", "n">>,
     <<" ", "O", "I", "L", "Y", "\t">>,
     <<"n", "o", "r", "m", "a", "l">>,
     <<" ", "N", "O", "R", "M", "A", "L", " ", "S", "K", "I", "N", "\n">>,
     <<"D", "R", "Y">>,
     <<"d", "r", "y", " ", "s", "k", "i", "n">>,
     <<"v", "e", "r", "y", " ", "d", "r", "y">>,
     <<"o", "i", "l", "y", " ", "s", "k", "i", "n", "s">>,
     <<"o", " ", "i", "l", "y">>,
     <<"d", "r", "y", "s", "k", "i", "n">>,
     <<"A", "c", "n", "e">>,
     <<" ">>,
     <<>>,
     NoneName}

CanonVariants == {"Combined_Predict", "Skin_conditions_Model_predict"}

ArgsCanonical ==
    \E name \in CanonNames :
    \E variant \in CanonVariants :
       /\ call = "canonical_skin_name"
       /\ arg = [name |-> name, variant |-> variant]

\* the classes of the conditions script: two that name no skin type and two
\* that do
RankedLabels ==
    {<<"A", "c", "n", "e">>, <<"W", "r", "i", "n", "k", "l", "e", "s">>,
     <<" ", "O", "I", "L", "Y", "\t">>, <<"d", "r", "y", " ", "s", "k", "i", "n">>}

RankedProbs == {4, 8}

\* ranked as main() builds it: sorted by descending probability
ArgsSplitSkin ==
    \E ranked \in SeqsUpTo([label : RankedLabels, prob : RankedProbs], MaxClasses) :
       /\ \A i \in 1..(Len(ranked) - 1) : ranked[i].prob >= ranked[i + 1].prob
       /\ call = "split_skin_vs_concerns"
       /\ arg = [ranked |-> ranked]

Init ==
    /\ pc = "called"
    /\ ret = Return(None)
    /\ NoRequestYet
    /\ \/ ArgsMerge
       \/ ArgsSplit
       \/ ArgsPick
       \/ ArgsAgg
       \/ ArgsCombine
       \/ ArgsCombineBinary64
       \/ ArgsScriptPick
       \/ ArgsRunCombined
       \/ ArgsAnalyze
       \/ ArgsCanonical
       \/ ArgsMergeOnHeap
       \/ ArgsAnalyzePath
       \/ ArgsSplitSkin

Called(f) == pc = "called" /\ call = f

Returned(f) == pc = "returned" /\ call = f

MergeConcernsSections ==
    /\ Called("merge_concerns_sections")
    /\ ret' = Return(merge_concerns_sections(arg.combined))
    /\ pc' = "returned"
    /\ UNCHANGED <<call, arg, requestVars>>

SplitOtherConcerns ==
    /\ Called("_split_other_concerns")
    /\ ret' = Return(_split_other_concerns(arg.agg_concern_probs,
                                           arg.high_thr, arg.low_thr))
    /\ pc' = "returned"
    /\ UNCHANGED <<call, arg, requestVars>>

PickSkinType ==
    /\ Called("_pick_skin_type")
    /\ ret' = _pick_skin_type(arg.prob_map, arg.skin_type_labels)
    /\ pc' = "returned"
    /\ UNCHANGED <<call, arg, requestVars>>

AggLesionsToConcernsByMax ==
    /\ Called("_agg_lesions_to_concerns_by_max")
    /\ ret' = Return(_agg_lesions_to_concerns_by_max(arg.lesion_results, arg.mapping))
    /\ pc' = "returned"
    /\ UNCHANGED <<call, arg, requestVars>>

CombineProbsCall ==
    /\ Called("combine_probs")
    /\ ret' = Return(combine_probs(arg.values, arg.COMBINE_METHOD))
    /\ pc' = "returned"
    /\ UNCHANGED <<call, arg, requestVars>>

CombineProbsBinary64Call ==
    /\ Called("combine_probs in binary64")
    /\ ret' = Return(combine_probs_binary64(FloatsOf(arg.values), arg.COMBINE_METHOD))
    /\ pc' = "returned"
    /\ UNCHANGED <<call, arg, requestVars>>

ScriptPickSkinType ==
    /\ Called("Simple_Ai_Script._pick_skin_type")
    /\ ret' = Return(Simple_Ai_Script_pick_skin_type(arg.classes, arg.probs))
    /\ pc' = "returned"
    /\ UNCHANGED <<call, arg, requestVars>>

RunCombinedAI ==
    /\ Called("run_combined_AI_from_cv2")
    /\ ret' = run_combined_AI_from_cv2(arg.lesions_runner, arg.conditions_runner,
                                       arg.skin_type_labels, arg.cond_threshold,
                                       arg.lesion_high_thr, arg.lesion_low_thr,
                                       arg.lesion_mapping)
    /\ pc' = "returned"
    /\ UNCHANGED <<call, arg, requestVars>>

AnalyzeFaceSkin ==
    /\ Called("analyze_face_skin")
    /\ ret' = Return(analyze_face_skin(arg.cond_classes, arg.cond_probs,
                                       arg.lesions_labels, arg.lesions_probs,
                                       arg.set_order))
    /\ pc' = "returned"
    /\ UNCHANGED <<call, arg, requestVars>>

AnalyzeFaceFromPath ==
    /\ Called("_analyze_face_from_path")
    /\ ret' = _analyze_face_from_path(arg.img_bgr, arg.lesions_runner,
                                      arg.conditions_runner)
    /\ pc' = "returned"
    /\ UNCHANGED <<call, arg, requestVars>>

MergeConcernsSectionsOnHeap ==
    /\ Called("merge_concerns_sections on objects")
    /\ ret' = Return(merge_concerns_sections_on_heap(arg.heap, arg.combined))
    /\ pc' = "returned"
    /\ UNCHANGED <<call, arg, requestVars>>

\* the caller, later, changes the map it was given or an object it holds: it
\* assigns a prob, empties a container, or appends to a source list
ChangeReturnedMap ==
    /\ Returned("merge_concerns_sections on objects")
    /\ \E a \in ObjectsOf(ret.val.heap, ret.val.merged) :
       \E changed \in {[ret.val.heap[a] EXCEPT !.prob = 0],
                       [ret.val.heap[a] EXCEPT !.elems = <<>>]}
                      \cup (IF ret.val.heap[a].kind = "strlist"
                            THEN {[ret.val.heap[a] EXCEPT !.elems = Append(@, "changed")]}
                            ELSE {}) :
          ret' = [ret EXCEPT !.val.heap[a] = changed]
    /\ pc' = "changed"
    /\ UNCHANGED <<call, arg, requestVars>>

CanonicalSkinName ==
    /\ Called("canonical_skin_name")
    /\ ret' = IF arg.variant = "Combined_Predict"
              THEN Return(_canonical_skin_name(arg.name))
              ELSE Skin_conditions_canonical_skin_name(arg.name)
    /\ pc' = "returned"
    /\ UNCHANGED <<call, arg, requestVars>>

SplitSkinVsConcerns ==
    /\ Called("split_skin_vs_concerns")
    /\ ret' = split_skin_vs_concerns(arg.ranked)
    /\ pc' = "returned"
    /\ UNCHANGED <<call, arg, requestVars>>

\* if _lesions_runner is not None and ...
EnsureModelsTestLesions ==
    \E t \in Threads :
       /\ At(t, "_ensure_models")
       /\ threads' = [threads EXCEPT ![t].pc = IF _lesions_runner # 0
                                               THEN "and _conditions_runner"
                                               ELSE "with _model_lock"]
       /\ UNCHANGED <<call, arg, ret, pc, _lesions_runner, _conditions_runner,
                      _model_lock, runners, loads>>

\* ... and _conditions_runner is not None: return
EnsureModelsTestConditions ==
    \E t \in Threads :
       /\ At(t, "and _conditions_runner")
       /\ threads' = [threads EXCEPT ![t].pc = IF _conditions_runner # 0
                                               THEN "_ensure_models returned"
                                               ELSE "with _model_lock"]
       /\ UNCHANGED <<call, arg, ret, pc, _lesions_runner, _conditions_runner,
                      _model_lock, runners, loads>>

\* with _model_lock: the lock is taken when it is free
AcquireModelLock ==
    \E t \in Threads :
       /\ At(t, "with _model_lock")
       /\ _model_lock = 0
       /\ _model_lock' = t
       /\ threads' = [threads EXCEPT ![t].pc = "locked: _lesions_runner"]
       /\ UNCHANGED <<call, arg, ret, pc, _lesions_runner, _conditions_runner,
                      runners, loads>>

\* if _lesions_runner is None: _lesions_runner = ModelRunner(...)
CreateLesionsRunner ==
    \E t \in Threads :
       /\ At(t, "locked: _lesions_runner")
       /\ IF IsUnset(_lesions_runner)
          THEN /\ runners' = Append(runners, NewRunner("SKIN_LESIONS_WEIGHTS"))
               /\ _lesions_runner' = Len(runners) + 1
          ELSE UNCHANGED <<runners, _lesions_runner>>
       /\ threads' = [threads EXCEPT ![t].pc = "locked: _conditions_runner"]
       /\ UNCHANGED <<call, arg, ret, pc, _conditions_runner, _model_lock, loads>>

\* if _conditions_runner is None: _conditions_runner = ModelRunner(...)
CreateConditionsRunner ==
    \E t \in Threads :
       /\ At(t, "locked: _conditions_runner")
       /\ IF IsUnset(_conditions_runner)
          THEN /\ runners' = Append(runners, NewRunner("SKIN_COND_WEIGHTS"))
               /\ _conditions_runner' = Len(runners) + 1
          ELSE UNCHANGED <<runners, _conditions_runner>>
       /\ threads' = [threads EXCEPT ![t].pc = "release _model_lock"]
       /\ UNCHANGED <<call, arg, ret, pc, _lesions_runner, _model_lock, loads>>

\* the end of the with block
ReleaseModelLock ==
    \E t \in Threads :
       /\ At(t, "release _model_lock")
       /\ _model_lock' = 0
       /\ threads' = [threads EXCEPT ![t].pc = "_ensure_models returned"]
       /\ UNCHANGED <<call, arg, ret, pc, _lesions_runner, _conditions_runner,
                      runners, loads>>

\* run_combined_AI_from_cv2(img_bgr, lesions_runner=_lesions_runner,
\* conditions_runner=_conditions_runner, ...), which begins with
\* conditions_runner.predict_from_bgr
CallRunCombined ==
    \E t \in Threads :
       /\ At(t, "_ensure_models returned")
       /\ threads' = [threads EXCEPT ![t].pc = "_ensure_loaded",
                                     ![t].lesions_runner = _lesions_runner,
                                     ![t].conditions_runner = _conditions_runner,
                                     ![t].self = _conditions_runner]
       /\ UNCHANGED <<call, arg, ret, pc, _lesions_runner, _conditions_runner,
                      _model_lock, runners, loads>>

\* if self._model is not None: return
EnsureLoadedTest ==
    \E t \in Threads :
       /\ At(t, "_ensure_loaded")
       /\ threads' = [threads EXCEPT ![t].pc = IF runners[threads[t].self]._model # 0
                                               THEN "forward"
                                               ELSE "torch.load"]
       /\ UNCHANGED <<call, arg, ret, pc, _lesions_runner, _conditions_runner,
                      _model_lock, runners, loads>>

\* ckpt = torch.load(path, ...) up to m.load_state_dict: the weights are read
\* into a new module m
TorchLoad ==
    \E t \in Threads :
       /\ At(t, "torch.load")
       /\ loads' = Append(loads, [runner |-> threads[t].self, request |-> t])
       /\ threads' = [threads EXCEPT ![t].pc = "self._model = m",
                                     ![t].m = Len(loads) + 1]
       /\ UNCHANGED <<call, arg, ret, pc, _lesions_runner, _conditions_runner,
                      _model_lock, runners>>

\* self._model = m.to(device).eval()
AssignModel ==
    \E t \in Threads :
       /\ At(t, "self._model = m")
       /\ runners' = [runners EXCEPT ![threads[t].self]._model = threads[t].m]
       /\ threads' = [threads EXCEPT ![t].pc = "forward"]
       /\ UNCHANGED <<call, arg, ret, pc, _lesions_runner, _conditions_runner,
                      _model_lock, loads>>

\* logits = self._model(x) and the rest of predict_from_bgr; after the
\* conditions runner comes lesions_runner.predict_from_bgr, after that the
\* rest of the request
Forward ==
    \E t \in Threads :
       /\ At(t, "forward")
       /\ threads' = IF threads[t].self = threads[t].conditions_runner
                     THEN [threads EXCEPT ![t].pc = "_ensure_loaded",
                                          ![t].self = threads[t].lesions_runner]
                     ELSE [threads EXCEPT ![t].pc = "analyzed"]
       /\ UNCHANGED <<call, arg, ret, pc, _lesions_runner, _conditions_runner,
                      _model_lock, runners, loads>>

Next ==
    \/ MergeConcernsSections
    \/ SplitOtherConcerns
    \/ PickSkinType
    \/ AggLesionsToConcernsByMax
    \/ CombineProbsCall
    \/ CombineProbsBinary64Call
    \/ ScriptPickSkinType
    \/ RunCombinedAI
    \/ AnalyzeFaceSkin
    \/ CanonicalSkinName
    \/ MergeConcernsSectionsOnHeap
    \/ ChangeReturnedMap
    \/ AnalyzeFaceFromPath
    \/ SplitSkinVsConcerns

Spec == Init /\ [][Next]_vars

\* the requests of one process, from its start
InitRequests ==
    /\ call = "requests"
    /\ arg = None
    /\ ret = Return(None)
    /\ pc = "called"
    /\ NoRequestYet

NextRequests ==
    \/ EnsureModelsTestLesions
    \/ EnsureModelsTestConditions
    \/ AcquireModelLock
    \/ CreateLesionsRunner
    \/ CreateConditionsRunner
    \/ ReleaseModelLock
    \/ CallRunCombined
    \/ EnsureLoadedTest
    \/ TorchLoad
    \/ AssignModel
    \/ Forward

SpecRequests == InitRequests /\ [][NextRequests]_vars

(***************************************************************************)
(* Claims about merge_concerns_sections.                                   *)
(***************************************************************************)
SetMax(S) == CHOOSE m \in S : \A x \in S : x <= m

SectionTags ==
    <<[key |-> "skin_concerns", tag |-> "conditions"],
      [key |-> "other_concerns", tag |-> "lesions"],
      [key |-> "low_concerns", tag |-> "lesions-low"]>>

\* the probabilities of the items of any section that carry the label
ProbsOfLabel(combined, lbl) ==
    {d.prob : d \in {x \in UNION {Range(SectionOf(combined, k)) : k \in SectionKeys} :
                        x.label = lbl}}

LabelInSection(combined, key, lbl) ==
    \E d \in Range(SectionOf(combined, key)) : d.label = lbl

\* C1: every stored prob of the merged map is the maximum probability over
\* all items with that label in the three sections, also when a label occurs
\* more than once inside one section.
C1_MergedProbIsMaxOfAllItems ==
    Returned("merge_concerns_sections") =>
        \A i \in 1..Len(ret.val) :
            ret.val[i].v.prob = SetMax(ProbsOfLabel(arg.combined, ret.val[i].k))

\* C10: the source list of every merged label holds exactly the tags of the
\* sections the label occurs in, each once, conditions before lesions before
\* lesions-low.
C10_SourcesAreSectionsInOrder ==
    Returned("merge_concerns_sections") =>
        \A i \in 1..Len(ret.val) :
            LET present(t) == LabelInSection(arg.combined, t.key, ret.val[i].k)
                tags == SelectSeq(SectionTags, present)
            IN  ret.val[i].v.source = [j \in 1..Len(tags) |-> tags[j].tag]

\* C10 witness: a label that occurs twice in one lesion section and also in
\* another section has been merged.
C10_Witness ==
    /\ Returned("merge_concerns_sections")
    /\ \E lbl \in MergeLabels :
        /\ LabelInSection(arg.combined, "skin_concerns", lbl)
        /\ \E i, j \in 1..Len(SectionOf(arg.combined, "other_concerns")) :
              /\ i < j
              /\ arg.combined["other_concerns"][i].label = lbl
              /\ arg.combined["other_concerns"][j].label = lbl
              /\ arg.combined["other_concerns"][j].prob
                    <= arg.combined["other_concerns"][i].prob
        /\ DictGet(ret.val, lbl, None).source = <<"conditions", "lesions">>

(***************************************************************************)
(* Claims about _split_other_concerns.                                     *)
(***************************************************************************)
AggItems(agg) == {[label |-> agg[i].k, prob |-> agg[i].v] : i \in 1..Len(agg)}

\* C2: with low_thr <= high_thr an aggregated concern is in the High list
\* exactly when its probability >= high_thr, in the Low list exactly when
\* low_thr <= probability < high_thr, and in neither list otherwise.
C2_SplitTiersByThresholds ==
    (Returned("_split_other_concerns") /\ arg.low_thr <= arg.high_thr) =>
        /\ Range(ret.val[1]) =
              {d \in AggItems(arg.agg_concern_probs) : d.prob >= arg.high_thr}
        /\ Range(ret.val[2]) =
              {d \in AggItems(arg.agg_concern_probs) :
                  arg.low_thr <= d.prob /\ d.prob < arg.high_thr}
        /\ Len(ret.val[1]) = Cardinality(Range(ret.val[1]))
        /\ Len(ret.val[2]) = Cardinality(Range(ret.val[2]))

\* C2 witness: a concern whose probability equals low_thr, below high_thr,
\* has been split together with a concern at high_thr.
C2_Witness ==
    /\ Returned("_split_other_concerns")
    /\ arg.low_thr < arg.high_thr
    /\ \E d \in AggItems(arg.agg_concern_probs) : d.prob = arg.low_thr
    /\ \E d \in AggItems(arg.agg_concern_probs) : d.prob = arg.high_thr

\* C3: thresholds with low > high are rejected with an error; no call returns
\* a tiering computed from them.
C3_InvertedThresholdsRejected ==
    /\ (Returned("_split_other_concerns") /\ arg.low_thr > arg.high_thr)
          => ret.raised # ""
    /\ (Returned("run_combined_AI_from_cv2") /\ arg.lesion_low_thr > arg.lesion_high_thr)
          => ret.raised # ""

(***************************************************************************)
(* Claims about skin-type selection.                                       *)
(***************************************************************************)
\* C4: for a non-empty candidate sequence the returned label is a candidate,
\* the returned prob is that label's value in the map (0.0 when absent), and
\* no candidate has a larger value.
C4_PickIsCandidateOfMaxProb ==
    (Returned("_pick_skin_type") /\ arg.skin_type_labels # <<>>) =>
        /\ ret.raised = ""
        /\ ret.val.label \in Range(arg.skin_type_labels)
        /\ ret.val.prob = (IF DictHas(arg.prob_map, ret.val.label)
                           THEN AsMap(arg.prob_map)[ret.val.label] ELSE 0)
        /\ \A c \in Range(arg.skin_type_labels) :
              (IF DictHas(arg.prob_map, c) THEN AsMap(arg.prob_map)[c] ELSE 0)
                  <= ret.val.prob

\* C4 witness: a selection among several candidates, one of them absent from
\* the map, another with a positive probability.
C4_Witness ==
    /\ Returned("_pick_skin_type")
    /\ Len(arg.skin_type_labels) >= 2
    /\ \E c \in Range(arg.skin_type_labels) : ~DictHas(arg.prob_map, c)
    /\ ret.raised = ""
    /\ ret.val.prob > 0

IndexPermutations(n) == {f \in [1..n -> 1..n] : \A i, j \in 1..n : f[i] = f[j] => i = j}

\* C5: among several candidates with the maximum probability the selection is
\* the first of the candidate sequence, and it does not depend on the order
\* in which the classifier's output lists the labels.
C5_TieGoesToFirstCandidate ==
    /\ (Returned("_pick_skin_type") /\ arg.skin_type_labels # <<>>) =>
          LET value(c) == DictGet(arg.prob_map, c, 0)
              cands == arg.skin_type_labels
              first == CHOOSE i \in 1..Len(cands) :
                          /\ \A j \in 1..Len(cands) : value(cands[j]) <= value(cands[i])
                          /\ \A j \in 1..(i - 1) : value(cands[j]) < value(cands[i])
          IN  ret.val.label = cands[first]
    /\ Returned("Simple_Ai_Script._pick_skin_type") =>
          \A f \in IndexPermutations(Len(arg.classes)) :
              Simple_Ai_Script_pick_skin_type(
                  [i \in 1..Len(arg.classes) |-> arg.classes[f[i]]],
                  [i \in 1..Len(arg.classes) |-> arg.probs[f[i]]]) = ret.val

(***************************************************************************)
(* Claims about lesion aggregation and combine_probs.                      *)
(***************************************************************************)
ConcernOf(mapping, d) ==
    IF d.label \in DOMAIN mapping THEN mapping[d.label] ELSE None

RECURSIVE ComplementProduct(_)
ComplementProduct(s) ==
    IF s = <<>> THEN 1
    ELSE (20 - s[Len(s)]) * ComplementProduct(SubSeq(s, 1, Len(s) - 1))

RECURSIVE Power(_, _)
Power(b, n) == IF n = 0 THEN 1 ELSE b * Power(b, n - 1)

\* C7: under noisy_or a non-empty contributor list gives one minus the
\* product of (1 - p); [0.2, 0.2, 0.2] gives 0.488.
C7_NoisyOrIsComplementOfProduct ==
    (Returned("combine_probs") /\ arg.COMBINE_METHOD = "noisy_or" /\ arg.values # <<>>) =>
        /\ ret.val.den = Power(20, Len(arg.values))
        /\ ret.val.num = ret.val.den - ComplementProduct(arg.values)
        /\ arg.values = <<4, 4, 4>> => ret.val.num * 1000 = 488 * ret.val.den

\* C7 witness: noisy_or of [0.2, 0.2, 0.2] has been computed.
C7_Witness ==
    /\ Returned("combine_probs")
    /\ arg.COMBINE_METHOD = "noisy_or"
    /\ arg.values = <<4, 4, 4>>

\* C8: a prediction whose label is absent from the mapping or mapped to None
\* contributes to no concern, whatever its probability, and the aggregation
\* returns without an error.
C8_ExcludedLabelsContributeNothing ==
    Returned("_agg_lesions_to_concerns_by_max") =>
        LET preds == arg.lesion_results
            mapped(d) == ConcernOf(arg.mapping, d) # None
        IN  /\ ret.raised = ""
            /\ None \notin DictKeys(ret.val)
            /\ \A c \in DictKeys(ret.val) :
                  \E i \in 1..Len(preds) :
                      /\ mapped(preds[i])
                      /\ arg.mapping[preds[i].label] = c
                      /\ preds[i].prob = AsMap(ret.val)[c]
            /\ AsMap(_agg_lesions_to_concerns_by_max(SelectSeq(preds, mapped),
                                                     arg.mapping))
                  = AsMap(ret.val)

\* C8 witness: a prediction mapped to None and one absent from the mapping,
\* both with the largest probability, next to a prediction with a concern.
C8_Witness ==
    /\ Returned("_agg_lesions_to_concerns_by_max")
    /\ ret.val # <<>>
    /\ \E i, j \in 1..Len(arg.lesion_results) :
          /\ arg.lesion_results[i].label \notin DOMAIN arg.mapping
          /\ arg.lesion_results[j].label \in DOMAIN arg.mapping
          /\ arg.mapping[arg.lesion_results[j].label] = None
          /\ \A k \in 1..Len(arg.lesion_results) :
                arg.lesion_results[k].prob <= arg.lesion_results[i].prob
          /\ \A k \in 1..Len(arg.lesion_results) :
                ConcernOf(arg.mapping, arg.lesion_results[k]) # None =>
                    arg.lesion_results[k].prob < arg.lesion_results[j].prob

(***************************************************************************)
(* Claims about the condition path of run_combined_AI_from_cv2.            *)
(***************************************************************************)
TaxonomyLabels == DOMAIN LESION_TO_CONCERN \cup DOMAIN CONCERN_MAP

TaxonomyConcerns ==
    ({LESION_TO_CONCERN[l] : l \in DOMAIN LESION_TO_CONCERN} \ {None})
        \cup {CONCERN_MAP[l] : l \in DOMAIN CONCERN_MAP}

\* C9: a raw label of the conditions model that is in no taxonomy table never
\* appears in skin_concerns; every label of skin_concerns is a concern name
\* that a taxonomy mapping produces.
C9_SkinConcernsAreTaxonomyConcerns ==
    (Returned("run_combined_AI_from_cv2") /\ ret.raised = "") =>
        \A d \in Range(ret.val.skin_concerns) :
            /\ d.label \in TaxonomyLabels
            /\ d.label \in TaxonomyConcerns

(***************************************************************************)
(* Further claims about merge_concerns_sections.                           *)
(***************************************************************************)
\* the combined result with the items of one section presented twice
WithSectionTwice(combined, key) == [combined EXCEPT ![key] = @ \o @]

TagOf(key) == (CHOOSE t \in Range(SectionTags) : t.key = key).tag

Occurrences(s, x) == Cardinality({i \in 1..Len(s) : s[i] = x})

\* C11: presenting the items of a section twice changes no label's prob, and
\* the source list of every label of that section holds the section's tag
\* exactly once.
C11_MergeIdempotentOnRepeatedSection ==
    Returned("merge_concerns_sections") =>
        \A key \in DOMAIN arg.combined :
            LET twice == merge_concerns_sections(WithSectionTwice(arg.combined, key))
            IN  /\ DictKeys(twice) = DictKeys(ret.val)
                /\ \A lbl \in DictKeys(ret.val) :
                      DictGet(twice, lbl, None).prob = DictGet(ret.val, lbl, None).prob
                /\ \A lbl \in DictKeys(twice) :
                      LabelInSection(arg.combined, key, lbl) =>
                          Occurrences(DictGet(twice, lbl, None).source, TagOf(key)) = 1

\* C11 witness: a lesion section with two different probabilities of a label
\* that the conditions section also holds has been merged.
C11_Witness ==
    /\ Returned("merge_concerns_sections")
    /\ "other_concerns" \in DOMAIN arg.combined
    /\ \E i, j \in 1..Len(SectionOf(arg.combined, "other_concerns")) :
          /\ arg.combined["other_concerns"][i].label = arg.combined["other_concerns"][j].label
          /\ arg.combined["other_concerns"][i].prob < arg.combined["other_concerns"][j].prob
          /\ LabelInSection(arg.combined, "skin_concerns",
                            arg.combined["other_concerns"][i].label)

\* conditions = [(Acne, 0.5)], lesions = [(Acne, 0.6)], lesions-low = [(Acne, 0.6)]
MergeOrderingExample ==
    [skin_concerns  |-> <<[label |-> "Acne", prob |-> 10]>>,
     other_concerns |-> <<[label |-> "Acne", prob |-> 12]>>,
     low_concerns   |-> <<[label |-> "Acne", prob |-> 12]>>]

\* C12 as stated: the example merges to the single entry Acne with prob 0.6
\* and sources [conditions, lesions].
C12_ExampleOmitsLesionsLow ==
    (Returned("merge_concerns_sections") /\ arg.combined = MergeOrderingExample) =>
        ret.val = <<[k |-> "Acne",
                     v |-> [prob |-> 12, source |-> <<"conditions", "lesions">>]]>>

\* C12 amended: the example merges to the single entry Acne with prob 0.6 and
\* sources [conditions, lesions, lesions-low].
C12_ExampleRecordsLesionsLow ==
    (Returned("merge_concerns_sections") /\ arg.combined = MergeOrderingExample) =>
        ret.val = <<[k |-> "Acne",
                     v |-> [prob |-> 12,
                            source |-> <<"conditions", "lesions", "lesions-low">>]]>>

\* C12 witness: the example has been merged.
C12_Witness ==
    /\ Returned("merge_concerns_sections")
    /\ arg.combined = MergeOrderingExample
    /\ DictKeys(ret.val) = {"Acne"}

(***************************************************************************)
(* Monotonicity of the aggregates.                                         *)
(***************************************************************************)
\* appending the contributor p to the call's list does not lower the aggregate
AppendKeepsAggregate(p) ==
    FracLeq(ret.val, combine_probs(Append(arg.values, p), arg.COMBINE_METHOD))

\* appending the prediction d lowers no concern of the call's aggregation
AppendKeepsConcerns(d) ==
    LET more == _agg_lesions_to_concerns_by_max(Append(arg.lesion_results, d), arg.mapping)
    IN  \A c \in DictKeys(ret.val) :
            DictHas(more, c) /\ DictGet(ret.val, c, 0) <= DictGet(more, c, 0)

TierOfSplit(lbl) ==
    IF \E d \in Range(ret.val[1]) : d.label = lbl THEN "High"
    ELSE IF \E d \in Range(ret.val[2]) : d.label = lbl THEN "Low"
    ELSE "Dropped"

\* the tier a call of analyze_face_skin gave the bucket lbl
TierOfAnalyze(lbl) ==
    IF \E d \in Range(ret.val.main_concerns) : d.label = lbl THEN "High"
    ELSE IF \E d \in Range(ret.val.low_concerns) : d.label = lbl THEN "Low"
    ELSE "Dropped"

TierRank(t) == IF t = "High" THEN 2 ELSE IF t = "Low" THEN 1 ELSE 0

\* the combined map analyze_face_skin tiers, recomputed from the arguments
CombinedConcernsOfCall ==
    _combine_concern_buckets(
        _collect_concerns_from_conditions(<<>>, arg.cond_classes, arg.cond_probs),
        _collect_concerns_from_lesions(<<>>, arg.lesions_labels, arg.lesions_probs),
        arg.set_order)

\* C14: with low <= high, of two concerns tiered by one call the one with the
\* larger probability is in no lower tier: High stays High, Low becomes Low
\* or High.
C14_TierMonotone ==
    /\ (Returned("_split_other_concerns") /\ arg.low_thr <= arg.high_thr) =>
          \A i, j \in 1..Len(arg.agg_concern_probs) :
              arg.agg_concern_probs[i].v <= arg.agg_concern_probs[j].v =>
                  TierRank(TierOfSplit(arg.agg_concern_probs[i].k))
                      <= TierRank(TierOfSplit(arg.agg_concern_probs[j].k))
    /\ Returned("analyze_face_skin") =>
          LET combined == CombinedConcernsOfCall
          IN  \A i, j \in 1..Len(combined) :
                  ~F64Less(combined[j].v, combined[i].v) =>
                      TierRank(TierOfAnalyze(combined[i].k))
                          <= TierRank(TierOfAnalyze(combined[j].k))

\* C14 witness: one call has tiered a concern Low and a concern of larger
\* probability High.
C14_Witness ==
    /\ Returned("_split_other_concerns")
    /\ arg.low_thr < arg.high_thr
    /\ \E i, j \in 1..Len(arg.agg_concern_probs) :
          /\ arg.agg_concern_probs[i].v < arg.agg_concern_probs[j].v
          /\ TierOfSplit(arg.agg_concern_probs[i].k) = "Low"
          /\ TierOfSplit(arg.agg_concern_probs[j].k) = "High"

(***************************************************************************)
(* The order and the grouping of the contributors of noisy_or.             *)
(***************************************************************************)
\* |x - y| <= 2^(-k)
F64Within(x, y, k) ==
    LET ex == IF x.m = <<>> THEN y.e ELSE x.e
        ey == IF y.m = <<>> THEN x.e ELSE y.e
        emin == IF ex < ey THEN ex ELSE ey
        bx == BigShl(x.m, ex - emin)
        by == BigShl(y.m, ey - emin)
        diff == IF BigLess(bx, by) THEN BigSub(by, bx) ELSE BigSub(bx, by)
    IN  ~BigLess(BigPow2(-k - emin), diff)

\* the contributors in another order
Reordered(values, order) == [i \in 1..Len(values) |-> values[order[i]]]

\* combine_probs under noisy_or on the contributors of the call, reordered
NoisyOrOfOrder(floats, order) ==
    combine_probs_binary64(Reordered(floats, order), "noisy_or")

\* noisy_or(a, noisy_or(b, c)) for the three contributors of the call
NoisyOrRightGrouped ==
    LET f == FloatsOf(arg.values)
    IN  combine_probs_binary64(
            <<f[1], combine_probs_binary64(<<f[2], f[3]>>, "noisy_or")>>, "noisy_or")

\* noisy_or(noisy_or(a, b), c) for the three contributors of the call
NoisyOrLeftGrouped ==
    LET f == FloatsOf(arg.values)
    IN  combine_probs_binary64(
            <<combine_probs_binary64(<<f[1], f[2]>>, "noisy_or"), f[3]>>, "noisy_or")

\* C15 as stated: the result of combine_probs under noisy_or is the same
\* float for every permutation of the contributor list, and for three
\* contributors a, b, c combining a with the combination of (b, c) equals
\* combining the combination of (a, b) with c.
C15_NoisyOrSameForEveryOrderAndGrouping ==
    (Returned("combine_probs in binary64") /\ arg.COMBINE_METHOD = "noisy_or") =>
        /\ LET floats == FloatsOf(arg.values)
           IN  \A order \in IndexPermutations(Len(arg.values)) :
                  NoisyOrOfOrder(floats, order) = ret.val
        /\ Len(arg.values) = 3 => NoisyOrRightGrouped = NoisyOrLeftGrouped

\* C15 amended: the result of combine_probs under noisy_or is the same float
\* for both orders of one or two contributors; for every permutation of a
\* longer list, and for the two groupings of three contributors, the results
\* are within 2^-52 of each other.
C15_NoisyOrSameUpToRounding ==
    (Returned("combine_probs in binary64") /\ arg.COMBINE_METHOD = "noisy_or") =>
        /\ LET floats == FloatsOf(arg.values)
           IN  \A order \in IndexPermutations(Len(arg.values)) :
                  LET other == NoisyOrOfOrder(floats, order)
                  IN  /\ F64Within(other, ret.val, 52)
                      /\ Len(arg.values) <= 2 => other = ret.val
        /\ Len(arg.values) = 3 => F64Within(NoisyOrRightGrouped, NoisyOrLeftGrouped, 52)

\* C15 witness: noisy_or of three contributors returned a float that another
\* order of the same contributors does not give, and the two groupings of the
\* contributors differ as well.
C15_Witness ==
    /\ Returned("combine_probs in binary64")
    /\ arg.COMBINE_METHOD = "noisy_or"
    /\ Len(arg.values) = 3
    /\ \E order \in IndexPermutations(3) : NoisyOrOfOrder(FloatsOf(arg.values), order) # ret.val
    /\ NoisyOrRightGrouped # NoisyOrLeftGrouped

(***************************************************************************)
(* The range of noisy_or.                                                  *)
(***************************************************************************)
\* C16 as stated: the noisy_or aggregate of contributors in [0,1] is >= 0 and
\* strictly less than 1.
C16_NoisyOrBelowOne ==
    (Returned("combine_probs") /\ arg.COMBINE_METHOD = "noisy_or") =>
        /\ FracLeq(Frac(0, 1), ret.val)
        /\ FracLess(ret.val, Frac(1, 1))

\* C16 amended: the noisy_or aggregate of contributors in [0,1] is >= 0 and
\* <= 1, and it is 1 when some contributor is 1.
C16_NoisyOrAtMostOne ==
    (Returned("combine_probs") /\ arg.COMBINE_METHOD = "noisy_or") =>
        /\ FracLeq(Frac(0, 1), ret.val)
        /\ FracLeq(ret.val, Frac(1, 1))
        /\ 20 \in Range(arg.values) => FracEq(ret.val, Frac(1, 1))

\* C16 witness: noisy_or over several contributors, one of them 1, gave 1.
C16_Witness ==
    /\ Returned("combine_probs")
    /\ arg.COMBINE_METHOD = "noisy_or"
    /\ Len(arg.values) >= 2
    /\ \E i, j \in 1..Len(arg.values) : arg.values[i] = 20 /\ arg.values[j] \in 1..19
    /\ ret.val.num = ret.val.den

(***************************************************************************)
(* Skin-type selection on empty input.                                     *)
(***************************************************************************)
\* C17: skin-type selection with an empty candidate sequence returns None and
\* does not raise; the combined call reports no skin type.
C17_EmptyCandidatesGiveNone ==
    /\ (Returned("_pick_skin_type") /\ arg.skin_type_labels = <<>>) =>
          ret.raised = "" /\ IsNone(ret.val)
    /\ (Returned("run_combined_AI_from_cv2") /\ arg.skin_type_labels = <<>>) =>
          ret.raised = "" /\ IsNone(ret.val.skin_type)

\* C18: skin-type selection over an empty prediction set returns None, not a
\* candidate with probability 0.0.
C18_EmptyPredictionsGiveNone ==
    /\ (Returned("_pick_skin_type") /\ arg.prob_map = <<>> /\ arg.skin_type_labels # <<>>) =>
          ret.raised = "" /\ IsNone(ret.val)
    /\ (Returned("Simple_Ai_Script._pick_skin_type") /\ arg.classes = <<>>) =>
          IsNone(ret.val)

(***************************************************************************)
(* Empty input, and the order of the returned lists.                       *)
(***************************************************************************)
\* C19: combine_probs on an empty list returns 0.0 under max, avg and
\* noisy_or, and merge_concerns_sections on sections that are all empty or
\* missing returns the empty map; neither raises.
C19_EmptyInputGivesZeroOrEmptyMap ==
    /\ (Returned("combine_probs") /\ arg.values = <<>>) =>
          ret.raised = "" /\ ret.val = Frac(0, 1)
    /\ (Returned("merge_concerns_sections")
            /\ \A key \in SectionKeys : SectionOf(arg.combined, key) = <<>>) =>
          ret.raised = "" /\ ret.val = <<>>

\* C19 witness: a result with one section missing and the others empty has
\* been merged.
C19_Witness ==
    /\ Returned("merge_concerns_sections")
    /\ DOMAIN arg.combined = {"skin_concerns", "low_concerns"}
    /\ \A key \in DOMAIN arg.combined : arg.combined[key] = <<>>
    /\ ret.val = <<>>

\* the probabilities of a list do not increase along it
NonIncreasing(l) == \A i \in 1..(Len(l) - 1) : l[i].prob >= l[i + 1].prob

NonIncreasingFloat(l) == \A i \in 1..(Len(l) - 1) : ~F64Less(l[i].prob, l[i + 1].prob)

\* C20: skin_concerns, other_concerns and low_concerns of
\* run_combined_AI_from_cv2, and main_concerns and low_concerns of
\* analyze_face_skin, are ordered by non-increasing probability.
C20_ConcernListsSortedDescending ==
    /\ (Returned("run_combined_AI_from_cv2") /\ ret.raised = "") =>
          /\ NonIncreasing(ret.val.skin_concerns)
          /\ NonIncreasing(ret.val.other_concerns)
          /\ NonIncreasing(ret.val.low_concerns)
    /\ Returned("analyze_face_skin") =>
          /\ NonIncreasingFloat(ret.val.main_concerns)
          /\ NonIncreasingFloat(ret.val.low_concerns)
    /\ Returned("_split_other_concerns") =>
          NonIncreasing(ret.val[1]) /\ NonIncreasing(ret.val[2])

\* C20 witness: a combined call whose conditions runner lists a concern of
\* smaller probability before one of larger probability returned both.
C20_Witness ==
    /\ Returned("run_combined_AI_from_cv2")
    /\ ret.raised = ""
    /\ Len(ret.val.skin_concerns) >= 2
    /\ ret.val.skin_concerns[1].prob > ret.val.skin_concerns[2].prob
    /\ \E i, j \in 1..Len(arg.conditions_runner.labels) :
          /\ i < j
          /\ arg.conditions_runner.labels[i] = ret.val.skin_concerns[2].label
          /\ arg.conditions_runner.labels[j] = ret.val.skin_concerns[1].label

(***************************************************************************)
(* The end-to-end example of the lesion path.                              *)
(***************************************************************************)
ExampleAgg == <<[k |-> "Acne", v |-> 10], [k |-> "Blackheads", v |-> 2]>>

\* the lesions runner gave Papule 0.5, Pustule 0.2 and Comedo 0.1
RunnerGaveLesionExample ==
    \A i \in 1..Len(LesionExample) :
        \E j \in 1..Len(arg.lesions_runner.labels) :
            /\ arg.lesions_runner.labels[j] = LesionExample[i].label
            /\ arg.lesions_runner.probs[j] = LesionExample[i].prob

\* C21: Papule 0.5, Pustule 0.2, Comedo 0.1 with the shipped mapping aggregate
\* by max to exactly {Acne: 0.5, Blackheads: 0.1}; tiering that with high 0.30
\* and low 0.15 gives High = [(Acne, 0.5)] and Low = []; and the combined call
\* on these predictions reports the same two lists.
C21_LesionExampleEndToEnd ==
    /\ (/\ Returned("_agg_lesions_to_concerns_by_max")
        /\ arg.lesion_results = LesionExample
        /\ arg.mapping = LESION_TO_CONCERN) =>
          AsMap(ret.val) = AsMap(ExampleAgg) /\ Len(ret.val) = 2
    /\ (/\ Returned("_split_other_concerns")
        /\ AsMap(arg.agg_concern_probs) = AsMap(ExampleAgg)
        /\ Len(arg.agg_concern_probs) = 2
        /\ arg.high_thr = lesion_high_thr_default
        /\ arg.low_thr = lesion_low_thr_default) =>
          ret.val = << <<[label |-> "Acne", prob |-> 10]>>, <<>> >>
    /\ (/\ Returned("run_combined_AI_from_cv2")
        /\ ret.raised = ""
        /\ RunnerGaveLesionExample
        /\ arg.lesion_high_thr = lesion_high_thr_default
        /\ arg.lesion_low_thr = lesion_low_thr_default) =>
          /\ ret.val.other_concerns = <<[label |-> "Acne", prob |-> 10]>>
          /\ ret.val.low_concerns = <<>>

\* C21 witness: the combined call returned for a lesions runner that gave the
\* example's predictions, under the shipped thresholds.
C21_Witness ==
    /\ Returned("run_combined_AI_from_cv2")
    /\ ret.raised = ""
    /\ RunnerGaveLesionExample
    /\ arg.lesion_high_thr = lesion_high_thr_default
    /\ arg.lesion_low_thr = lesion_low_thr_default
    /\ ret.val.other_concerns = <<[label |-> "Acne", prob |-> 10]>>

(***************************************************************************)
(* Determinism of the fusion.                                              *)
(***************************************************************************)
\* what analyze_face_skin returns for the call's classifier outputs when the
\* bucket-key set is iterated in the given order
AnalyzeWithSetOrder(set_order) ==
    analyze_face_skin(arg.cond_classes, arg.cond_probs,
                      arg.lesions_labels, arg.lesions_probs, set_order)

\* C22: the result of analyze_face_skin on given classifier outputs, the order
\* of main_concerns and low_concerns included, is the same for every
\* iteration order of the bucket-key set.
C22_ResultIndependentOfSetOrder ==
    Returned("analyze_face_skin") =>
        \A set_order \in SetOrders(ScriptBuckets) :
            AnalyzeWithSetOrder(set_order) = ret.val

(***************************************************************************)
(* The fallback of split_skin_vs_concerns, and canonical_skin_name.        *)
(***************************************************************************)
\* the labels of the model that name no skin type
NoSkinLabels == {<<"A", "c", "n", "e">>, <<"W", "r", "i", "n", "k", "l", "e", "s">>}

\* C23: when no label of the prediction list names a skin type, the selection
\* of split_skin_vs_concerns is an entry of the list with the highest
\* probability of the whole list, whatever its label; when the list is empty
\* the selection is None.
C23_FallbackIsOverallTop ==
    (Returned("split_skin_vs_concerns")
        /\ \A i \in 1..Len(arg.ranked) : arg.ranked[i].label \in NoSkinLabels) =>
          /\ ret.raised = ""
          /\ arg.ranked = <<>> => IsNone(ret.val.skin_top)
          /\ arg.ranked # <<>> =>
                /\ \E i \in 1..Len(arg.ranked) : ret.val.skin_top = arg.ranked[i]
                /\ \A i \in 1..Len(arg.ranked) : arg.ranked[i].prob <= ret.val.skin_top.prob

\* C23 witness: a list of several predictions with different probabilities,
\* none naming a skin type, gave a selection.
C23_Witness ==
    /\ Returned("split_skin_vs_concerns")
    /\ Len(arg.ranked) >= 2
    /\ \A i \in 1..Len(arg.ranked) : arg.ranked[i].label \in NoSkinLabels
    /\ arg.ranked[1].prob > arg.ranked[Len(arg.ranked)].prob
    /\ ret.raised = ""
    /\ ret.val.skin_top = arg.ranked[1]

\* the canonical skin type of every name handed to canonical_skin_name, as
\* the alias table gives it for the trimmed, lowercased name
ExpectedCanonical(name) ==
    CASE name \in {<<"O", "i", "l", "y", " ", "S", "k", "i", "n">>,
                   <<" ", "O", "I", "L", "Y", "\t">>} -> "Oily Skin"
      [] name \in {<<"n", "o", "r", "m", "a", "l">>,
                   <<" ", "N", "O", "R", "M", "A", "L", " ", "S", "K", "I", "N", "\n">>}
                                                      -> "Normal Skin"
      [] name \in {<<"D", "R", "Y">>,
                   <<"d", "r", "y", " ", "s", "k", "i", "n">>} -> "Dry Skin"
      [] OTHER -> None

\* C24: canonical_skin_name returns the canonical skin type exactly when the
\* trimmed, lowercased label is one of the six aliases; for every other
\* label, one that contains an alias and a missing one included, it returns
\* None, and it never raises.
C24_CanonicalNameExactOrNone ==
    Returned("canonical_skin_name") =>
        /\ ret.raised = ""
        /\ ret.val = ExpectedCanonical(arg.name)

\* C24 for the labels that are present: both variants return the canonical
\* type of an alias and None for every other label.
C24_PresentLabelExactOrNone ==
    (Returned("canonical_skin_name") /\ arg.name # NoneName) =>
        /\ ret.raised = ""
        /\ ret.val = ExpectedCanonical(arg.name)

\* C24 witness: a label that only contains an alias gave None.
C24_Witness ==
    /\ Returned("canonical_skin_name")
    /\ arg.name = <<"o", "i", "l", "y", " ", "s", "k", "i", "n", "s">>
    /\ arg.variant = "Skin_conditions_Model_predict"
    /\ ret = Return(None)

\* the missing label raises in the conditions script
C24_MissingLabelRaises ==
    /\ Returned("canonical_skin_name")
    /\ arg.name = NoneName
    /\ arg.variant = "Skin_conditions_Model_predict"
    /\ ret = Raise("AttributeError")

(***************************************************************************)
(* The band of width EPSILON below FINAL_MIN_PROB.                         *)
(***************************************************************************)
\* FINAL_MIN_PROB - EPSILON <= v < FINAL_MIN_PROB
InEpsilonBand(v) == ~F64Less(v, MainThreshold) /\ F64Less(v, F64FromRatio(FINAL_MIN_PROB, 20))

\* C27: a combined concern whose probability is within EPSILON below
\* FINAL_MIN_PROB is reported by analyze_face_skin in low_concerns, not in
\* main_concerns, and is not dropped.
C27_EpsilonBandIsLowConfidence ==
    Returned("analyze_face_skin") =>
        LET combined == CombinedConcernsOfCall
        IN  \A i \in 1..Len(combined) :
                InEpsilonBand(combined[i].v) => TierOfAnalyze(combined[i].k) = "Low"

\* what the code does with the band: the concern is a main concern
C27_EpsilonBandIsMain ==
    /\ Returned("analyze_face_skin")
    /\ \E i \in 1..Len(CombinedConcernsOfCall) :
          /\ InEpsilonBand(CombinedConcernsOfCall[i].v)
          /\ TierOfAnalyze(CombinedConcernsOfCall[i].k) = "High"

(***************************************************************************)
(* The tiers partition the concerns.                                       *)
(***************************************************************************)
\* no label is in both lists and none is twice in one list
DisjointAndDistinct(high, low) ==
    /\ \A i \in 1..Len(high) : \A j \in 1..Len(low) : high[i].label # low[j].label
    /\ \A i, j \in 1..Len(high) : high[i].label = high[j].label => i = j
    /\ \A i, j \in 1..Len(low) : low[i].label = low[j].label => i = j

\* C28 as stated: in both pipelines the two lists share no label, hold no
\* label twice, and the probability reported for a listed concern equals its
\* aggregated probability.
C28_TiersPartitionExactReport ==
    /\ Returned("_split_other_concerns") =>
          /\ DisjointAndDistinct(ret.val[1], ret.val[2])
          /\ \A d \in Range(ret.val[1]) \cup Range(ret.val[2]) :
                \E i \in 1..Len(arg.agg_concern_probs) :
                    /\ arg.agg_concern_probs[i].k = d.label
                    /\ arg.agg_concern_probs[i].v = d.prob
    /\ Returned("analyze_face_skin") =>
          /\ DisjointAndDistinct(ret.val.main_concerns, ret.val.low_concerns)
          /\ \A d \in Range(ret.val.main_concerns) \cup Range(ret.val.low_concerns) :
                \E i \in 1..Len(CombinedConcernsOfCall) :
                    /\ CombinedConcernsOfCall[i].k = d.label
                    /\ CombinedConcernsOfCall[i].v = d.prob

\* C28 with the report of analyze_face_skin as the code makes it: the lists
\* share no label and hold no label twice in both pipelines; the probability
\* _split_other_concerns reports is the aggregated probability, and the one
\* analyze_face_skin reports is the aggregated probability rounded to six
\* decimals, less than 10^-6 (here 2^-20) from it.
C28_TiersPartitionRoundedReport ==
    /\ Returned("_split_other_concerns") =>
          /\ DisjointAndDistinct(ret.val[1], ret.val[2])
          /\ \A d \in Range(ret.val[1]) \cup Range(ret.val[2]) :
                \E i \in 1..Len(arg.agg_concern_probs) :
                    /\ arg.agg_concern_probs[i].k = d.label
                    /\ arg.agg_concern_probs[i].v = d.prob
    /\ Returned("analyze_face_skin") =>
          LET combined == CombinedConcernsOfCall
          IN  /\ DisjointAndDistinct(ret.val.main_concerns, ret.val.low_concerns)
              /\ \A d \in Range(ret.val.main_concerns) \cup Range(ret.val.low_concerns) :
                    \E i \in 1..Len(combined) :
                        /\ combined[i].k = d.label
                        /\ d.prob = F64FromMillionths(Millionths(combined[i].v))
                        /\ F64Within(d.prob, combined[i].v, 20)

\* C28 witness: analyze_face_skin listed a main and a low concern, and the
\* probability reported for one of them is not the float that was aggregated.
C28_Witness ==
    /\ Returned("analyze_face_skin")
    /\ ret.val.main_concerns # <<>>
    /\ \E d \in Range(ret.val.low_concerns) :
          \E i \in 1..Len(CombinedConcernsOfCall) :
              /\ CombinedConcernsOfCall[i].k = d.label
              /\ CombinedConcernsOfCall[i].v # d.prob

(***************************************************************************)
(* The source tags of the production pipeline.                             *)
(***************************************************************************)
\* no entry is tagged both lesions and lesions-low, and an entry with more
\* than one source has conditions first
NoBothLesionTagsAndConditionsFirst(merged) ==
    \A i \in 1..Len(merged) :
        LET source == merged[i].v.source
        IN  /\ ~("lesions" \in Range(source) /\ "lesions-low" \in Range(source))
            /\ Len(source) > 1 => source[1] = "conditions"

\* C29: when merge_concerns_sections is applied to what
\* run_combined_AI_from_cv2 returned, for any classifier outputs and
\* thresholds, no merged entry is tagged both lesions and lesions-low, and
\* every merged entry with more than one source has conditions as its first
\* source; so it is for the pair _analyze_face_from_path returns.
C29_PipelineSourceTags ==
    /\ (Returned("run_combined_AI_from_cv2") /\ ret.raised = "") =>
          NoBothLesionTagsAndConditionsFirst(merge_concerns_sections(ret.val))
    /\ (Returned("_analyze_face_from_path") /\ ret.raised = "") =>
          /\ ret.val[2] = merge_concerns_sections(ret.val[1])
          /\ NoBothLesionTagsAndConditionsFirst(ret.val[2])

\* C29 witness: a request whose merged map holds Acne from the conditions
\* model and from a lesion class, next to an entry tagged lesions-low only.
C29_Witness ==
    /\ Returned("_analyze_face_from_path")
    /\ ret.raised = ""
    /\ \E i, j \in 1..Len(ret.val[2]) :
          /\ ret.val[2][i].v.source = <<"conditions", "lesions">>
          /\ ret.val[2][j].v.source = <<"lesions-low">>

(***************************************************************************)
(* merge_concerns_sections and the objects of its input.                   *)
(***************************************************************************)
\* the items of a section of the combined result at address c of heap h, by
\* value
SectionValues(h, c, key) ==
    LET items == HeapSectionOf(h, c, key)
    IN  [i \in 1..Len(items) |-> <<h[items[i]].label, h[items[i]].prob>>]

\* C30: after merge_concerns_sections has returned, and after any later
\* change made through the returned map or its source lists, the combined
\* result and its three section lists hold the same items with the same
\* probabilities as before the call: every object of the input is as it was.
C30_MergeLeavesInputUnchanged ==
    (call = "merge_concerns_sections on objects" /\ pc \in {"returned", "changed"}) =>
        /\ \A key \in SectionKeys :
              SectionValues(ret.val.heap, arg.combined, key)
                  = SectionValues(arg.heap, arg.combined, key)
        /\ \A a \in 1..Len(arg.heap) : ret.val.heap[a] = arg.heap[a]
        /\ ObjectsOf(ret.val.heap, ret.val.merged)
               \cap ObjectsOf(arg.heap, arg.combined) = {}

\* C30 witness: a label of two sections was merged, and afterwards a source
\* list of the returned map was changed.
C30_Witness ==
    /\ call = "merge_concerns_sections on objects"
    /\ pc = "changed"
    /\ \E a \in ObjectsOf(ret.val.heap, ret.val.merged) :
          /\ ret.val.heap[a].kind = "strlist"
          /\ ret.val.heap[a].elems = <<"conditions", "lesions", "changed">>

(***************************************************************************)
(* Concurrent requests: the runners and their weights.                     *)
(***************************************************************************)
\* the loads of weights performed for the runner a
LoadsOf(a) == {i \in 1..Len(loads) : loads[i].runner = a}

\* C25: under any interleaving of concurrent requests the weights of each
\* model are loaded at most once: at most one load is performed for a runner,
\* and every other request uses the model that load gave.
C25_WeightsLoadedAtMostOnce ==
    \A a \in 1..Len(runners) : Cardinality(LoadsOf(a)) <= 1

\* two requests have each loaded the weights of one runner
C25_LoadedTwice ==
    \E a \in 1..Len(runners) :
        \E i, j \in LoadsOf(a) : loads[i].request # loads[j].request

\* the ModelRunner objects created for a weights file
RunnersOf(weights_path) == {a \in 1..Len(runners) : runners[a].weights_path = weights_path}

\* the request t is past its call of _ensure_models
PastEnsureModels(t) ==
    threads[t].pc \in {"_ensure_models returned", "_ensure_loaded", "torch.load",
                       "self._model = m", "forward", "analyzed"}

\* C26: under any interleaving of concurrent _ensure_models calls at most one
\* ModelRunner is created for the lesions model and at most one for the
\* conditions model, each global holds the runner created for it, a global
\* that holds a runner keeps it at every step, and a call has returned only
\* when both globals hold a runner.
C26_RunnersCreatedOnceAndKept ==
    /\ [](/\ Cardinality(RunnersOf("SKIN_LESIONS_WEIGHTS")) <= 1
          /\ Cardinality(RunnersOf("SKIN_COND_WEIGHTS")) <= 1
          /\ _lesions_runner # 0 => _lesions_runner \in RunnersOf("SKIN_LESIONS_WEIGHTS")
          /\ _conditions_runner # 0 => _conditions_runner \in RunnersOf("SKIN_COND_WEIGHTS")
          /\ \A t \in Threads :
                PastEnsureModels(t) => _lesions_runner # 0 /\ _conditions_runner # 0)
    /\ [][/\ _lesions_runner # 0 => _lesions_runner' = _lesions_runner
          /\ _conditions_runner # 0 => _conditions_runner' = _conditions_runner]_vars

\* C26 witness: a request that found a runner missing holds the lock after
\* another request has created both runners, and that request has returned
\* from _ensure_models.
C26_Witness ==
    \E t, u \in Threads :
        /\ t # u
        /\ At(t, "locked: _lesions_runner")
        /\ _model_lock = t
        /\ _lesions_runner # 0
        /\ _conditions_runner # 0
        /\ PastEnsureModels(u)

====
